---- MODULE Spec2Model ----
(***************************************************************************)
(* A model of two subsystems of the repository:                            *)
(*   - the interval scheduling engine (qiskit/pulse/schedule/timeslots.py, *)
(*     pulses.py, pulse_schedule.py): Interval, Timeslot,                  *)
(*     TimeslotOccupancy, the pulses and Schedule;                         *)
(*   - the pass pipeline (qiskit/passmanager/flow_controllers.py): the     *)
(*     three flow controllers, the FlowController registry and factory.    *)
(*     The execution of a controller (BaseController.execute, in           *)
(*     qiskit/passmanager/base_tasks.py) is not part of the sources at     *)
(*     hand; `execute` follows the description of the runner instead.      *)
(* Specifications: SpecSchedule (a Schedule under insert and append),      *)
(* SpecOccupancy (TimeslotOccupancy construction), SpecIter (one           *)
(* controller and a loop over its iter_tasks), SpecFactory (the            *)
(* FlowController classmethods), SpecRun (a controller is built and run).  *)
(* Each subsystem has its own specification over its own variables; the    *)
(* variables of the other subsystems stay at their idle values.            *)
(***************************************************************************)
EXTENDS Integers, Sequences, FiniteSets, TLC

VARIABLES
    \* Schedule (pulse_schedule.py): one Schedule object and the last call on it
    children,        \* Schedule._children: sequence of TimedPulse
    occupancy,       \* Schedule._occupancy: a TimeslotOccupancy
    constructed,     \* whether Schedule.__init__ has returned an object
    call,            \* the last call made: its name and arguments
    err,             \* what the last call raised (NoError when it returned)
    pre,             \* children and occupancy as they were before the last call
    \* TimeslotOccupancy (timeslots.py): a construction from a list of timeslots
    slots,           \* the list handed to TimeslotOccupancy.__init__
    occ,             \* the outcome of the construction
    \* TimeslotOccupancy (timeslots.py): one object and the last call on it
    occA,            \* the receiver: a TimeslotOccupancy
    ocall,           \* the last call: its name and arguments
    oresult,         \* what it returned or raised
    opre,            \* the receiver as it was before the last call
    \* Interval (timeslots.py): two intervals and a.has_overlap(b)
    operands,        \* the pair of intervals
    overlap,         \* what has_overlap returned
    \* the PropertySet handed to iter_tasks and to every pass
    property_set,
    \* one flow controller and a for loop over controller.iter_tasks(property_set)
    ctrl,            \* the controller
    gen,             \* the generator iter_tasks returned: where it is suspended
    yielded,         \* the names of the tasks the current call has yielded so far
    evals,           \* the values the predicate returned during the current call
    outcome,         \* idle, running (suspended at a yield), returned or raised
    entry,           \* property_set as it was when the current call began
    calls,           \* how many calls of iter_tasks have begun
    prev,            \* yielded and outcome of the call before this one
    \* the FlowController class and the last call on it
    registered_controllers,  \* FlowController.registered_controllers
    hierarchy,       \* FlowController.hierarchy
    fcall,           \* the last call: its name and arguments
    fresult,         \* what it raised, and the controller it returned
    fpre,            \* registered_controllers and hierarchy before the last call
    \* one run of the controller the program built
    stack,           \* the controllers being iterated, outermost first, each with its generator
    trace,           \* the passes run and the predicate values computed, in order
    run_outcome,     \* idle, running, done or raised
    ps0,             \* property_set as it was when the run began
    callback,        \* the callback handed to run, or "None"
    observed,        \* the calls of the callback, in order
    valid_passes,    \* RunningPassManager.valid_passes
    \* RunningPassManager: a call of one of its methods
    mcall,           \* the method and what its body raises
    mresult          \* what the caller of the method sees

schedVars == <<children, occupancy, constructed, call, err, pre>>
mergeVars == <<occA, ocall, oresult, opre>>
ivVars == <<operands, overlap>>
occVars == <<slots, occ, mergeVars, ivVars>>
iterVars == <<ctrl, gen, yielded, evals, outcome, entry, calls, prev>>
factVars == <<registered_controllers, hierarchy, fcall, fresult, fpre>>
runVars == <<stack, trace, run_outcome, ps0, callback, observed, valid_passes>>
mgrVars == <<mcall, mresult>>
pipeVars == <<property_set, iterVars, factVars, runVars, mgrVars>>
vars == <<schedVars, occVars, pipeVars>>

----------------------------------------------------------------------------
(* Bounds of the model *)

\* insert times range over -1..MaxT
MaxT == 2
\* pulse durations range over 1..MaxDur (frame changes have duration 0)
MaxDur == 2
\* calls are made on a schedule of fewer than MaxChildren children
MaxChildren == 2
\* a flow controller holds at most MaxTasks tasks
MaxTasks == 2
\* the max_iteration option, when given, is in 0..MaxIter
MaxIter == 2
\* property_set["x"] is in 0..MaxX
MaxX == 2
\* iter_tasks is called at most MaxCalls times on one controller
MaxCalls == 2
\* the receiver and the argument of a TimeslotOccupancy method hold at most
\* MaxOperand timeslots each
MaxOperand == 1
\* TimeslotOccupancy is constructed from at most MaxSlots timeslots
MaxSlots == 3
\* ... whose intervals begin in 0..MaxBegin
MaxBegin == 1

Channels == {"x", "y"}
Times == -1 .. MaxT
Durations == 1 .. MaxDur

----------------------------------------------------------------------------
(* Errors *)

NoError == [type |-> "none", msg |-> ""]
Error(type, msg) == [type |-> type, msg |-> msg]

----------------------------------------------------------------------------
(* timeslots.py *)

\* Interval.__init__: (begin, end = begin + duration)
Interval(begin, duration) == [begin |-> begin, end |-> begin + duration]

\* Interval.duration
Interval_duration(iv) == iv.end - iv.begin

has_overlap_closed(a, b) == a.begin <= b.end /\ b.begin <= a.end

\* only an interval that starts inside the receiver is seen to overlap it
has_overlap_startsInside(a, b) == a.begin <= b.begin /\ b.begin < a.end

\* an interval of no length overlaps nothing
has_overlap_emptyNever(a, b) ==
    /\ a.begin < a.end
    /\ b.begin < b.end
    /\ a.begin < b.end
    /\ b.begin < a.end

\* a comparison that looks at one end of the two intervals only
has_overlap_oneSided(a, b) == a.begin < b.end

\* Interval.has_overlap (None counts as false at every caller)
has_overlap(a, b) == a.begin < b.end /\ b.begin < a.end

\* Interval.shifted
Interval_shifted(iv, time) == Interval(iv.begin + time, Interval_duration(iv))

\* Timeslot.__init__
Timeslot(interval, channel) == [interval |-> interval, channel |-> channel]

\* self._table is a defaultdict(list): a read of a missing key yields [] ...
TableGet(table, ch) == IF ch \in DOMAIN table THEN table[ch] ELSE <<>>

\* ... and leaves the key in the dict
TableTouch(table, ch) ==
    [c \in DOMAIN table \cup {ch} |-> IF c \in DOMAIN table THEN table[c] ELSE <<>>]

TablePut(table, ch, ivs) ==
    [c \in DOMAIN table \cup {ch} |-> IF c = ch THEN ivs ELSE table[c]]

EmptyTable == [c \in {} |-> <<>>]

\* for interval in self._table[ch]: if slot.interval.has_overlap(interval)
OverlapsAny(iv, ivs) == \E k \in 1 .. Len(ivs) : has_overlap(iv, ivs[k])

\* the loop of TimeslotOccupancy.__init__ from the k-th timeslot on
RECURSIVE BuildTable(_, _, _)
BuildTable(timeslots, k, table) ==
    IF k > Len(timeslots)
    THEN [err |-> NoError, table |-> table]
    ELSE LET slot == timeslots[k]
             ivs == TableGet(table, slot.channel)
         IN  IF OverlapsAny(slot.interval, ivs)
             THEN [err |-> Error("PulseError",
                                 "Cannot create TimeslotOccupancy from overlapped timeslots"),
                   table |-> TableTouch(table, slot.channel)]
             ELSE BuildTable(timeslots, k + 1,
                             TablePut(table, slot.channel, Append(ivs, slot.interval)))

\* as BuildTable, but a timeslot is compared with the last interval of its
\* channel only
RECURSIVE BuildTable_lastOnly(_, _, _)
BuildTable_lastOnly(timeslots, k, table) ==
    IF k > Len(timeslots)
    THEN [err |-> NoError, table |-> table]
    ELSE LET slot == timeslots[k]
             ivs == TableGet(table, slot.channel)
         IN  IF Len(ivs) > 0 /\ has_overlap(slot.interval, ivs[Len(ivs)])
             THEN [err |-> Error("PulseError",
                                 "Cannot create TimeslotOccupancy from overlapped timeslots"),
                   table |-> TableTouch(table, slot.channel)]
             ELSE BuildTable_lastOnly(timeslots, k + 1,
                                      TablePut(table, slot.channel, Append(ivs, slot.interval)))

TimeslotOccupancy_lastOnly(timeslots) ==
    LET r == BuildTable_lastOnly(timeslots, 1, EmptyTable)
    IN  [err |-> r.err, timeslots |-> timeslots, table |-> r.table]

\* TimeslotOccupancy.__init__: the object, or the error it raised
TimeslotOccupancy(timeslots) ==
    LET r == BuildTable(timeslots, 1, EmptyTable)
    IN  [err |-> r.err, timeslots |-> timeslots, table |-> r.table]

\* TimeslotOccupancy.channelset
channelset(o) == DOMAIN o.table

\* as MergeableLoop, but a timeslot is compared with the intervals of every
\* channel of the table
RECURSIVE MergeableLoop_anyChannel(_, _, _)
MergeableLoop_anyChannel(table, timeslots, k) ==
    IF k > Len(timeslots)
    THEN [result |-> TRUE, table |-> table]
    ELSE LET slot == timeslots[k]
         IN  IF \E ch \in DOMAIN table : OverlapsAny(slot.interval, table[ch])
             THEN [result |-> FALSE, table |-> TableTouch(table, slot.channel)]
             ELSE MergeableLoop_anyChannel(TableTouch(table, slot.channel), timeslots, k + 1)

is_mergeable_with_anyChannel(self, other) ==
    MergeableLoop_anyChannel(self.table, other.timeslots, 1)

\* the loops of TimeslotOccupancy.is_mergeable_with from the k-th timeslot of
\* `other` on; the reads of self._table go through the defaultdict
RECURSIVE MergeableLoop(_, _, _)
MergeableLoop(table, timeslots, k) ==
    IF k > Len(timeslots)
    THEN [result |-> TRUE, table |-> table]
    ELSE LET slot == timeslots[k]
         IN  IF OverlapsAny(slot.interval, TableGet(table, slot.channel))
             THEN [result |-> FALSE, table |-> TableTouch(table, slot.channel)]
             ELSE MergeableLoop(TableTouch(table, slot.channel), timeslots, k + 1)

\* TimeslotOccupancy.is_mergeable_with: the value returned and self._table after
is_mergeable_with(self, other) == MergeableLoop(self.table, other.timeslots, 1)

\* the two lists are put together without the constructor's comparison
merged_unchecked(self, other) ==
    [err |-> NoError, timeslots |-> self.timeslots \o other.timeslots,
     table |-> EmptyTable]

\* TimeslotOccupancy.merged
merged(self, other) == TimeslotOccupancy(self.timeslots \o other.timeslots)

\* shifted that hands the timeslots on where they are
shifted_unmoved(self, time) ==
    IF time < 0
    THEN [err |-> Error("PulseError", "Cannot shift TimeslotOccupancy by negative time"),
          timeslots |-> <<>>, table |-> EmptyTable]
    ELSE TimeslotOccupancy(self.timeslots)

\* shifted without `if time < 0: raise`
shifted_anyTime(self, time) ==
    TimeslotOccupancy(
        [k \in 1 .. Len(self.timeslots) |->
            Timeslot(Interval_shifted(self.timeslots[k].interval, time),
                     self.timeslots[k].channel)])

\* TimeslotOccupancy.shifted
shifted(self, time) ==
    IF time < 0
    THEN [err |-> Error("PulseError", "Cannot shift TimeslotOccupancy by negative time"),
          timeslots |-> <<>>, table |-> EmptyTable]
    ELSE TimeslotOccupancy(
             [k \in 1 .. Len(self.timeslots) |->
                 Timeslot(Interval_shifted(self.timeslots[k].interval, time),
                          self.timeslots[k].channel)])

----------------------------------------------------------------------------
(* pulses.py *)

PulseKinds == {"DrivePulse", "AcquirePulse", "FrameChangePulse"}

\* DrivePulse.__init__: one timeslot [0, pulse.duration) on the channel
DrivePulse(d, ch) ==
    [kind |-> "DrivePulse", duration |-> d,
     occupancy |-> TimeslotOccupancy(<<Timeslot(Interval(0, d), ch)>>)]

\* AcquirePulse.__init__: a timeslot [0, duration) on each acquire channel and
\* each memory slot
AcquirePulse(d, chs) ==
    [kind |-> "AcquirePulse", duration |-> d,
     occupancy |-> TimeslotOccupancy(
                       [k \in 1 .. Len(chs) |-> Timeslot(Interval(0, d), chs[k])])]

\* FrameChangePulse.__init__: one timeslot [0, 0) on the channel; the duration
\* is that of the FrameChange command, 0
FrameChangePulse(ch) ==
    [kind |-> "FrameChangePulse", duration |-> 0,
     occupancy |-> TimeslotOccupancy(<<Timeslot(Interval(0, 0), ch)>>)]

\* a Schedule handed over as the item (isinstance(pulse, Schedule))
ScheduleItem ==
    [kind |-> "Schedule", duration |-> 0, occupancy |-> TimeslotOccupancy(<<>>)]

\* an object that is no Pulse at all
InvalidItem ==
    [kind |-> "Invalid", duration |-> 0, occupancy |-> TimeslotOccupancy(<<>>)]

LeafItems ==
    {DrivePulse(d, ch) : d \in Durations, ch \in Channels}
    \cup {FrameChangePulse(ch) : ch \in Channels}
    \cup {AcquirePulse(d, <<"x", "y">>) : d \in Durations}

Items == LeafItems \cup {ScheduleItem, InvalidItem}

----------------------------------------------------------------------------
(* pulse_schedule.py *)

\* TimedPulse.__init__
TimedPulse(t0, pulse) == [t0 |-> t0, pulse |-> pulse]

\* TimedPulse.begin_time: t0 plus the t0 of every ancestor; the one ancestor is
\* the Schedule, whose t0 is 0
TimedPulse_begin_time(child) == child.t0 + 0

\* TimedPulse.end_time
TimedPulse_end_time(child) == TimedPulse_begin_time(child) + child.pulse.duration

RECURSIVE MaxOf(_, _, _)
MaxOf(seq, k, acc) ==
    IF k > Len(seq) THEN acc
    ELSE MaxOf(seq, k + 1, IF seq[k] > acc THEN seq[k] ELSE acc)

\* `self._children[-1].end_time()` in place of the max over the children
end_time_last(self) ==
    IF Len(self.children) = 0 THEN 0
    ELSE TimedPulse_end_time(self.children[Len(self.children)])

\* Schedule.end_time: max over the children, default 0
end_time(self) ==
    IF Len(self.children) = 0 THEN 0
    ELSE LET ends == [k \in 1 .. Len(self.children) |->
                         TimedPulse_end_time(self.children[k])]
         IN  MaxOf(ends, 2, ends[1])

Outcome(e, ch, o) == [err |-> e, children |-> ch, occupancy |-> o]

\* insert without its isinstance(pulse, Schedule) branch: a Schedule is a
\* Pulse and is placed like one
insert_nested(self, t0, pulse) ==
    IF pulse.kind \in PulseKinds \cup {"Schedule"}
    THEN LET sh == shifted(pulse.occupancy, t0)
         IN  IF sh.err # NoError
             THEN Outcome(sh.err, self.children, self.occupancy)
             ELSE LET m == is_mergeable_with(self.occupancy, sh)
                      probed == [self.occupancy EXCEPT !.table = m.table]
                  IN  IF m.result
                      THEN LET mg == merged(probed, sh)
                           IN  IF mg.err # NoError
                               THEN Outcome(mg.err, self.children, probed)
                               ELSE Outcome(NoError,
                                            Append(self.children, TimedPulse(t0, pulse)),
                                            mg)
                      ELSE Outcome(Error("ScheduleError", "Fail to insert due to overlap"),
                                   self.children, probed)
    ELSE Outcome(Error("ScheduleError", "Invalid to be inserted"),
                 self.children, self.occupancy)

insert_partial(self, t0, pulse) ==
    IF pulse.kind = "Schedule"
    THEN Outcome(Error("NotImplementedError",
                       "This version doesn't support schedule of schedules."),
                 self.children, self.occupancy)
    ELSE IF pulse.kind \in PulseKinds
    THEN LET sh == shifted(pulse.occupancy, t0)
         IN  IF sh.err # NoError
             THEN Outcome(sh.err, self.children, self.occupancy)
             ELSE LET m == is_mergeable_with(self.occupancy, sh)
                      probed == [self.occupancy EXCEPT !.table = m.table]
                      kids == Append(self.children, TimedPulse(t0, pulse))
                  IN  IF m.result
                      THEN LET mg == merged(probed, sh)
                           IN  IF mg.err # NoError
                               THEN Outcome(mg.err, self.children, probed)
                               ELSE Outcome(NoError, kids, mg)
                      ELSE Outcome(Error("ScheduleError", "Fail to insert due to overlap"),
                                   kids, probed)
    ELSE Outcome(Error("ScheduleError", "Invalid to be inserted"),
                 self.children, self.occupancy)

\* Schedule.insert on self = [children, occupancy]: what it raised, and the
\* object's fields when it returned or raised
insert(self, t0, pulse) ==
    IF pulse.kind = "Schedule"
    THEN Outcome(Error("NotImplementedError",
                       "This version doesn't support schedule of schedules."),
                 self.children, self.occupancy)
    ELSE IF pulse.kind \in PulseKinds
    THEN LET sh == shifted(pulse.occupancy, t0)
         IN  IF sh.err # NoError
             THEN Outcome(sh.err, self.children, self.occupancy)
             ELSE LET m == is_mergeable_with(self.occupancy, sh)
                      probed == [self.occupancy EXCEPT !.table = m.table]
                  IN  IF m.result
                      THEN LET mg == merged(probed, sh)
                           IN  IF mg.err # NoError
                               THEN Outcome(mg.err, self.children, probed)
                               ELSE Outcome(NoError,
                                            Append(self.children, TimedPulse(t0, pulse)),
                                            mg)
                      ELSE Outcome(Error("ScheduleError", "Fail to insert due to overlap"),
                                   self.children, probed)
    ELSE Outcome(Error("ScheduleError", "Invalid to be inserted"),
                 self.children, self.occupancy)

\* `t0 = self.begin_time()` in place of `t0 = self.end_time()`
append_atBegin(self, pulse) ==
    IF pulse.kind = "Schedule"
    THEN Outcome(Error("NotImplementedError",
                       "This version doesn't support schedule of schedules."),
                 self.children, self.occupancy)
    ELSE IF pulse.kind \in PulseKinds
    THEN LET r == insert(self, 0, pulse)
         IN  IF r.err.type = "ScheduleError"
             THEN [r EXCEPT !.err = Error("ScheduleError", "Fail to append due to overlap")]
             ELSE r
    ELSE Outcome(Error("ScheduleError", "Invalid to be appended"),
                 self.children, self.occupancy)

\* Schedule.append
append(self, pulse) ==
    IF pulse.kind = "Schedule"
    THEN Outcome(Error("NotImplementedError",
                       "This version doesn't support schedule of schedules."),
                 self.children, self.occupancy)
    ELSE IF pulse.kind \in PulseKinds
    THEN LET r == insert(self, end_time(self), pulse)
         IN  IF r.err.type = "ScheduleError"
             THEN [r EXCEPT !.err = Error("ScheduleError", "Fail to append due to overlap")]
             ELSE r
    ELSE Outcome(Error("ScheduleError", "Invalid to be appended"),
                 self.children, self.occupancy)

\* the loop of Schedule.__init__ over `schedules` from its k-th pair on
RECURSIVE InitLoop(_, _, _)
InitLoop(self, schedules, k) ==
    IF k > Len(schedules)
    THEN Outcome(NoError, self.children, self.occupancy)
    ELSE LET t0 == schedules[k][1]
             pulse == schedules[k][2]
         IN  IF pulse.kind = "Schedule"
             THEN Outcome(Error("NotImplementedError",
                                "This version doesn't support schedule of schedules."),
                          self.children, self.occupancy)
             ELSE IF pulse.kind \in PulseKinds
             THEN LET r == insert(self, t0, pulse)
                  IN  IF r.err # NoError THEN r
                      ELSE InitLoop(r, schedules, k + 1)
             ELSE Outcome(Error("ScheduleError", "Invalid to be scheduled"),
                          self.children, self.occupancy)

\* Schedule.__init__
Schedule__init__(schedules) ==
    InitLoop([children |-> <<>>, occupancy |-> TimeslotOccupancy(<<>>)], schedules, 1)

----------------------------------------------------------------------------
(* flow_controllers.py: tasks, options, predicates *)

ControllerKinds == {"FlowControllerLinear", "DoWhileController", "ConditionalController"}

\* a pass: a Task that is no controller; running it applies `effect` to the
\* property set
Pass(name, effect) == [kind |-> "Task", name |-> name, effect |-> effect]

\* isinstance(t, Task)
isTask(t) == t.kind = "Task" \/ t.kind \in ControllerKinds

\* isinstance(t, BaseController)
isController(t) == t.kind \in ControllerKinds

\* the options dict: empty, or {"max_iteration": n}
NoOptions == [k \in {} |-> 0]
WithMaxIteration(n) == [k \in {"max_iteration"} |-> n]

\* the default of self._options.get("max_iteration", 1000)
DefaultMaxIteration == 1000

\* self._options.get("max_iteration", 1000)
max_iteration(options) ==
    IF "max_iteration" \in DOMAIN options THEN options["max_iteration"]
    ELSE DefaultMaxIteration

\* the callables handed over as condition and do_while: PropertySet -> bool
Callables == {"x_eq_0", "x_eq_1", "x_lt_max", "always"}

\* callable(property_set)
Apply(f, ps) ==
    CASE f = "x_eq_0" -> ps.x = 0
      [] f = "x_eq_1" -> ps.x = 1
      [] f = "x_lt_max" -> ps.x < MaxX
      [] f = "always" -> TRUE

PropertySets == [x : 0 .. MaxX]

Made(obj) == [err |-> NoError, obj |-> obj]
NotMade(e) == [err |-> e, obj |-> [kind |-> "None"]]

\* `tasks` as a caller passes it: a sequence, or one object that is none
ASequence(seq) == [isSequence |-> TRUE, value |-> seq]
OneObject(t) == [isSequence |-> FALSE, value |-> t]

\* if not isinstance(tasks, Sequence): tasks = [tasks]
AsSequence(tasks) == IF tasks.isSequence THEN tasks.value ELSE <<tasks.value>>

NotAllTasks ==
    Error("PassManagerError", "Added tasks are not all valid pass manager task types.")

\* FlowControllerLinear.__init__
FlowControllerLinear(tasks, options) ==
    LET seq == AsSequence(tasks)
    IN  IF \E k \in 1 .. Len(seq) : ~isTask(seq[k])
        THEN NotMade(NotAllTasks)
        ELSE Made([kind |-> "FlowControllerLinear", tasks |-> seq, options |-> options])

\* DoWhileController.__init__
DoWhileController(tasks, do_while, options) ==
    LET seq == AsSequence(tasks)
    IN  IF \E k \in 1 .. Len(seq) : ~isTask(seq[k])
        THEN NotMade(NotAllTasks)
        ELSE Made([kind |-> "DoWhileController", tasks |-> seq, do_while |-> do_while,
                   options |-> options])

\* ConditionalController.__init__
ConditionalController(tasks, condition, options) ==
    LET seq == AsSequence(tasks)
    IN  IF \E k \in 1 .. Len(seq) : ~isTask(seq[k])
        THEN NotMade(NotAllTasks)
        ELSE Made([kind |-> "ConditionalController", tasks |-> seq, condition |-> condition,
                   options |-> options])

----------------------------------------------------------------------------
(* flow_controllers.py: iter_tasks. A generator is where it is suspended: *)
(* started (its body has begun), i (the passes of the do-while loop that  *)
(* are complete), j (how many tasks of the current pass it has yielded).  *)
(* A resumption runs the body to the next yield, to its end or to a raise *)
(* and reports the predicate values it computed on the way.               *)

NewGenerator == [started |-> FALSE, i |-> 0, j |-> 0]

NoTask == [kind |-> "None"]

Yield(g, t, ev) == [out |-> "yield", gen |-> g, task |-> t, evals |-> ev, err |-> NoError]
Return(g, ev) == [out |-> "return", gen |-> g, task |-> NoTask, evals |-> ev, err |-> NoError]
Raise(g, ev, e) == [out |-> "raise", gen |-> g, task |-> NoTask, evals |-> ev, err |-> e]

FlowControllerLinear_iter_tasks_skipFirst(self, g, ps) ==
    LET from == IF g.started THEN g.j ELSE 1
    IN  IF from < Len(self.tasks)
        THEN Yield([g EXCEPT !.started = TRUE, !.j = from + 1], self.tasks[from + 1], <<>>)
        ELSE Return([g EXCEPT !.started = TRUE], <<>>)

\* `yield from reversed(self.tasks)`
FlowControllerLinear_iter_tasks_reversed(self, g, ps) ==
    IF g.j < Len(self.tasks)
    THEN Yield([g EXCEPT !.started = TRUE, !.j = g.j + 1],
               self.tasks[Len(self.tasks) - g.j], <<>>)
    ELSE Return([g EXCEPT !.started = TRUE], <<>>)

\* FlowControllerLinear.iter_tasks: yield from self.tasks
FlowControllerLinear_iter_tasks(self, g, ps) ==
    IF g.j < Len(self.tasks)
    THEN Yield([g EXCEPT !.started = TRUE, !.j = g.j + 1], self.tasks[g.j + 1], <<>>)
    ELSE Return([g EXCEPT !.started = TRUE], <<>>)

\* the condition is asked again before every task:
\*     for task in self.tasks:
\*         if not self.condition(property_set): return
\*         yield task
ConditionalController_iter_tasks_recheck(self, g, ps) ==
    LET g1 == [g EXCEPT !.started = TRUE]
    IN  IF g.j >= Len(self.tasks)
        THEN Return(g1, IF g.started THEN <<>> ELSE <<Apply(self.condition, ps)>>)
        ELSE LET b == Apply(self.condition, ps)
             IN  IF b
                 THEN Yield([g1 EXCEPT !.j = g.j + 1], self.tasks[g.j + 1], <<b>>)
                 ELSE Return(g1, <<b>>)

\* `if self.condition:` in place of `if self.condition(property_set):`
ConditionalController_iter_tasks_uncalled(self, g, ps) ==
    IF g.j < Len(self.tasks)
    THEN Yield([g EXCEPT !.started = TRUE, !.j = g.j + 1], self.tasks[g.j + 1], <<>>)
    ELSE Return([g EXCEPT !.started = TRUE], <<>>)

\* ConditionalController.iter_tasks: the condition is called when the body
\* begins, which is at the first resumption
ConditionalController_iter_tasks(self, g, ps) ==
    LET ev == IF g.started THEN <<>> ELSE <<Apply(self.condition, ps)>>
        g1 == [g EXCEPT !.started = TRUE]
    IN  IF ~g.started /\ ~ev[1]
        THEN Return(g1, ev)
        ELSE IF g.j < Len(self.tasks)
        THEN Yield([g1 EXCEPT !.j = g.j + 1], self.tasks[g.j + 1], ev)
        ELSE Return(g1, ev)

MaximumIterationReached(n) == [type |-> "PassManagerError",
                               msg |-> "Maximum iteration reached. max_iteration=%i", arg |-> n]

\* range(max_iteration + 1) in place of range(max_iteration)
RECURSIVE DoWhileLoop_onePassMore(_, _, _, _)
DoWhileLoop_onePassMore(self, g, ps, ev) ==
    LET n == max_iteration(self.options)
    IN  IF g.i > n
        THEN Raise(g, ev, MaximumIterationReached(n))
        ELSE IF g.j < Len(self.tasks)
        THEN Yield([g EXCEPT !.j = g.j + 1], self.tasks[g.j + 1], ev)
        ELSE LET b == Apply(self.do_while, ps)
             IN  IF ~b
                 THEN Return(g, Append(ev, b))
                 ELSE DoWhileLoop_onePassMore(self, [g EXCEPT !.i = g.i + 1, !.j = 0], ps,
                                              Append(ev, b))

\* the last pass raises without asking do_while
RECURSIVE DoWhileLoop_raiseUnasked(_, _, _, _)
DoWhileLoop_raiseUnasked(self, g, ps, ev) ==
    LET n == max_iteration(self.options)
    IN  IF g.i >= n
        THEN Raise(g, ev, MaximumIterationReached(n))
        ELSE IF g.j < Len(self.tasks)
        THEN Yield([g EXCEPT !.j = g.j + 1], self.tasks[g.j + 1], ev)
        ELSE IF g.i + 1 >= n
        THEN Raise(g, ev, MaximumIterationReached(n))
        ELSE LET b == Apply(self.do_while, ps)
             IN  IF ~b
                 THEN Return(g, Append(ev, b))
                 ELSE DoWhileLoop_raiseUnasked(self, [g EXCEPT !.i = g.i + 1, !.j = 0], ps,
                                               Append(ev, b))

\* the body of DoWhileController.iter_tasks from where g stands:
\*     for _ in range(max_iteration):
\*         yield from self.tasks
\*         if not self.do_while(property_set): return
\*     raise PassManagerError(...)
RECURSIVE DoWhileLoop(_, _, _, _)
DoWhileLoop(self, g, ps, ev) ==
    LET n == max_iteration(self.options)
    IN  IF g.i >= n
        THEN Raise(g, ev, MaximumIterationReached(n))
        ELSE IF g.j < Len(self.tasks)
        THEN Yield([g EXCEPT !.j = g.j + 1], self.tasks[g.j + 1], ev)
        ELSE LET b == Apply(self.do_while, ps)
             IN  IF ~b
                 THEN Return(g, Append(ev, b))
                 ELSE DoWhileLoop(self, [g EXCEPT !.i = g.i + 1, !.j = 0], ps, Append(ev, b))

DoWhileController_iter_tasks_onePassMore(self, g, ps) ==
    DoWhileLoop_onePassMore(self, [g EXCEPT !.started = TRUE], ps, <<>>)

DoWhileController_iter_tasks_raiseUnasked(self, g, ps) ==
    DoWhileLoop_raiseUnasked(self, [g EXCEPT !.started = TRUE], ps, <<>>)

\* DoWhileController.iter_tasks
DoWhileController_iter_tasks(self, g, ps) ==
    DoWhileLoop(self, [g EXCEPT !.started = TRUE], ps, <<>>)

\* controller.iter_tasks(property_set), resumed once
iter_tasks(self, g, ps) ==
    CASE self.kind = "FlowControllerLinear" -> FlowControllerLinear_iter_tasks(self, g, ps)
      [] self.kind = "DoWhileController" -> DoWhileController_iter_tasks(self, g, ps)
      [] self.kind = "ConditionalController" -> ConditionalController_iter_tasks(self, g, ps)

----------------------------------------------------------------------------
(* flow_controllers.py: the FlowController class. cls is the pair of its  *)
(* class attributes registered_controllers (alias -> controller class)    *)
(* and hierarchy (a list of aliases).                                     *)

Aliases == {"condition", "do_while", "my_condition"}

\* the controller classes a caller registers
ControllerClasses == {"ConditionalController", "DoWhileController"}

\* the keyword parameter by which a class takes its callable
Keyword(class_type) ==
    CASE class_type = "ConditionalController" -> "condition"
      [] class_type = "DoWhileController" -> "do_while"

Range(seq) == {seq[k] : k \in 1 .. Len(seq)}

\* the dict d without key a: what d.pop(a) leaves
Without(d, a) == [k \in DOMAIN d \ {a} |-> d[k]]

NoControllers == [a \in {} |-> ""]

UnexpectedKeyword == Error("TypeError", "__init__() got an unexpected keyword argument")
NeedsCallable ==
    Error("PassManagerError", "The controller needs a callable. Value cannot be None.")
NotFound(name) == [type |-> "KeyError", msg |-> "Flow controller not found: %s", arg |-> name]
NotRegistered(alias) == [type |-> "KeyError", msg |-> "", arg |-> alias]

\* class_type([instance], options=options, **{alias: callable})
Instantiate(class_type, instance, alias, callable, options) ==
    IF alias # Keyword(class_type)
    THEN NotMade(UnexpectedKeyword)
    ELSE CASE class_type = "ConditionalController" ->
                  ConditionalController(ASequence(<<instance>>), callable, options)
           [] class_type = "DoWhileController" ->
                  DoWhileController(ASequence(<<instance>>), callable, options)

\* `passes` is kept when it is a controller, and wrapped otherwise
BaseInstance(passes, options) ==
    IF ~passes.isSequence /\ isController(passes.value)
    THEN Made(passes.value)
    ELSE FlowControllerLinear(passes, options)

\* `for alias in cls.hierarchy` in place of `for alias in cls.hierarchy[::-1]`
RECURSIVE FactoryLoop_forward(_, _, _, _, _)
FactoryLoop_forward(cls, k, instance, options, controllers) ==
    IF k > Len(cls.hierarchy)
    THEN Made(instance)
    ELSE LET alias == cls.hierarchy[k]
         IN  IF alias \notin DOMAIN controllers
             THEN FactoryLoop_forward(cls, k + 1, instance, options, controllers)
             ELSE IF alias \notin DOMAIN cls.registered_controllers
             THEN NotMade(NotRegistered(alias))
             ELSE LET made == Instantiate(cls.registered_controllers[alias], instance, alias,
                                          controllers[alias], options)
                  IN  IF made.err # NoError
                      THEN made
                      ELSE FactoryLoop_forward(cls, k + 1, made.obj, options,
                                               Without(controllers, alias))

controller_factory_forward(cls, passes, options, controllers) ==
    IF \E a \in DOMAIN controllers : controllers[a] = "None"
    THEN NotMade(NeedsCallable)
    ELSE LET base == BaseInstance(passes, options)
         IN  IF base.err # NoError
             THEN base
             ELSE IF DOMAIN controllers = {}
             THEN base
             ELSE FactoryLoop_forward(cls, 1, base.obj, options, controllers)

\* `class_type([base], ...)` in place of `class_type([instance], ...)`: every
\* controller wraps the first instance
RECURSIVE FactoryLoop_flat(_, _, _, _, _, _)
FactoryLoop_flat(cls, k, base, instance, options, controllers) ==
    IF k = 0
    THEN Made(instance)
    ELSE LET alias == cls.hierarchy[k]
         IN  IF alias \notin DOMAIN controllers
             THEN FactoryLoop_flat(cls, k - 1, base, instance, options, controllers)
             ELSE IF alias \notin DOMAIN cls.registered_controllers
             THEN NotMade(NotRegistered(alias))
             ELSE LET made == Instantiate(cls.registered_controllers[alias], base, alias,
                                          controllers[alias], options)
                  IN  IF made.err # NoError
                      THEN made
                      ELSE FactoryLoop_flat(cls, k - 1, base, made.obj, options,
                                            Without(controllers, alias))

controller_factory_flat(cls, passes, options, controllers) ==
    IF \E a \in DOMAIN controllers : controllers[a] = "None"
    THEN NotMade(NeedsCallable)
    ELSE LET base == BaseInstance(passes, options)
         IN  IF base.err # NoError
             THEN base
             ELSE IF DOMAIN controllers = {}
             THEN base
             ELSE FactoryLoop_flat(cls, Len(cls.hierarchy), base.obj, base.obj, options,
                                   controllers)

\* the loop of controller_factory, `for alias in cls.hierarchy[::-1]`, from
\* position k of hierarchy downwards
RECURSIVE FactoryLoop(_, _, _, _, _)
FactoryLoop(cls, k, instance, options, controllers) ==
    IF k = 0
    THEN Made(instance)
    ELSE LET alias == cls.hierarchy[k]
         IN  IF alias \notin DOMAIN controllers
             THEN FactoryLoop(cls, k - 1, instance, options, controllers)
             ELSE IF alias \notin DOMAIN cls.registered_controllers
             THEN NotMade(NotRegistered(alias))
             ELSE LET made == Instantiate(cls.registered_controllers[alias], instance, alias,
                                          controllers[alias], options)
                  IN  IF made.err # NoError
                      THEN made
                      ELSE FactoryLoop(cls, k - 1, made.obj, options,
                                       Without(controllers, alias))

\* a keyword that is no registered alias raises KeyError
controller_factory_strict(cls, passes, options, controllers) ==
    IF \E a \in DOMAIN controllers : controllers[a] = "None"
    THEN NotMade(NeedsCallable)
    ELSE LET base == BaseInstance(passes, options)
         IN  IF base.err # NoError
             THEN base
             ELSE IF DOMAIN controllers = {}
             THEN base
             ELSE IF \E a \in DOMAIN controllers : a \notin Range(cls.hierarchy)
             THEN NotMade(NotRegistered(CHOOSE a \in DOMAIN controllers :
                                            a \notin Range(cls.hierarchy)))
             ELSE FactoryLoop(cls, Len(cls.hierarchy), base.obj, options, controllers)

\* the None test moved behind the construction of the first controller
controller_factory_lateCheck(cls, passes, options, controllers) ==
    LET base == BaseInstance(passes, options)
    IN  IF base.err # NoError
        THEN base
        ELSE IF \E a \in DOMAIN controllers : controllers[a] = "None"
        THEN NotMade(NeedsCallable)
        ELSE IF DOMAIN controllers = {}
        THEN base
        ELSE FactoryLoop(cls, Len(cls.hierarchy), base.obj, options, controllers)

\* FlowController.controller_factory(passes, options, **controllers)
controller_factory(cls, passes, options, controllers) ==
    IF \E a \in DOMAIN controllers : controllers[a] = "None"
    THEN NotMade(NeedsCallable)
    ELSE LET base == BaseInstance(passes, options)
         IN  IF base.err # NoError
             THEN base
             ELSE IF DOMAIN controllers = {}
             THEN base
             ELSE FactoryLoop(cls, Len(cls.hierarchy), base.obj, options, controllers)

Class(registered, order) == [registered_controllers |-> registered, hierarchy |-> order]

\* hierarchy.append(name) after removing name: a name registered again moves
\* to the end
add_flow_controller_moveToEnd(cls, name, controller) ==
    [err |-> NoError,
     cls |-> Class([a \in DOMAIN cls.registered_controllers \cup {name} |->
                        IF a = name THEN controller ELSE cls.registered_controllers[a]],
                   Append(SelectSeq(cls.hierarchy, LAMBDA a : a # name), name))]

\* hierarchy.append(name) without the test `if name not in cls.hierarchy`
add_flow_controller_duplicating(cls, name, controller) ==
    [err |-> NoError,
     cls |-> Class([a \in DOMAIN cls.registered_controllers \cup {name} |->
                        IF a = name THEN controller ELSE cls.registered_controllers[a]],
                   Append(cls.hierarchy, name))]

\* FlowController.add_flow_controller(name, controller)
add_flow_controller(cls, name, controller) ==
    [err |-> NoError,
     cls |-> Class([a \in DOMAIN cls.registered_controllers \cup {name} |->
                        IF a = name THEN controller ELSE cls.registered_controllers[a]],
                   IF name \in Range(cls.hierarchy) THEN cls.hierarchy
                   ELSE Append(cls.hierarchy, name))]

\* list.remove(name): the list without the first occurrence of name
RECURSIVE ListRemove(_, _)
ListRemove(seq, name) ==
    IF seq = <<>> THEN <<>>
    ELSE IF Head(seq) = name THEN Tail(seq)
    ELSE <<Head(seq)>> \o ListRemove(Tail(seq), name)

\* remove_flow_controller without its last statement, cls.hierarchy.remove(name)
remove_flow_controller_mapOnly(cls, name) ==
    IF name \notin Range(cls.hierarchy)
    THEN [err |-> NotFound(name), cls |-> cls]
    ELSE IF name \notin DOMAIN cls.registered_controllers
    THEN [err |-> NotRegistered(name), cls |-> cls]
    ELSE [err |-> NoError,
          cls |-> Class(Without(cls.registered_controllers, name), cls.hierarchy)]

\* FlowController.remove_flow_controller(name)
remove_flow_controller(cls, name) ==
    IF name \notin Range(cls.hierarchy)
    THEN [err |-> NotFound(name), cls |-> cls]
    ELSE IF name \notin DOMAIN cls.registered_controllers
    THEN [err |-> NotRegistered(name), cls |-> cls]
    ELSE [err |-> NoError,
          cls |-> Class(Without(cls.registered_controllers, name),
                        ListRemove(cls.hierarchy, name))]

\* registered_controllers = {} and hierarchy = [] in the class body
Unregistered == Class(NoControllers, <<>>)

\* the class after the two add_flow_controller calls that end the module
Imported ==
    add_flow_controller(
        add_flow_controller(Unregistered, "condition", "ConditionalController").cls,
        "do_while", "DoWhileController").cls

----------------------------------------------------------------------------
(* The runner: the execution of a controller, depth first. For each task  *)
(* the controller's iter_tasks(property_set) yields, a controller is       *)
(* iterated in its turn and a pass is run on property_set. The stack holds *)
(* the controllers being iterated, each with its generator.                *)

Effects == {"keep", "inc", "reset"}

\* what running a pass writes to the property set
RunEffect(effect, ps) ==
    CASE effect = "keep" -> ps
      [] effect = "inc" -> [ps EXCEPT !.x = IF ps.x < MaxX THEN ps.x + 1 ELSE ps.x]
      [] effect = "reset" -> [ps EXCEPT !.x = 0]

Frame(controller) == [ctrl |-> controller, gen |-> NewGenerator]

\* the events of a run: a pass was run, a controller called its predicate
RunEvent(task) == [op |-> "run", who |-> task.name, value |-> TRUE]
EvalEvent(controller, b) == [op |-> "eval", who |-> controller.kind, value |-> b]

EvalEvents(controller, bools) ==
    [k \in 1 .. Len(bools) |-> EvalEvent(controller, bools[k])]

Top(stk) == stk[Len(stk)]
Pop(stk) == SubSeq(stk, 1, Len(stk) - 1)

\* one step of the execution: the innermost controller's generator is
\* resumed; the task it yields is a controller to iterate or a pass to run,
\* its end gives control back to the enclosing controller, and what it
\* raises ends the run
execute(stk, ps) ==
    LET top == Top(stk)
        r == iter_tasks(top.ctrl, top.gen, ps)
        asked == EvalEvents(top.ctrl, r.evals)
        held == [stk EXCEPT ![Len(stk)].gen = r.gen]
    IN  CASE r.out = "yield" /\ isController(r.task) ->
                 [stack |-> Append(held, Frame(r.task)), events |-> asked,
                  property_set |-> ps, status |-> "running", err |-> NoError]
          [] r.out = "yield" /\ ~isController(r.task) ->
                 [stack |-> held, events |-> Append(asked, RunEvent(r.task)),
                  property_set |-> RunEffect(r.task.effect, ps), status |-> "running",
                  err |-> NoError]
          [] r.out = "return" ->
                 [stack |-> Pop(stk), events |-> asked, property_set |-> ps,
                  status |-> IF Len(stk) = 1 THEN "done" ELSE "running", err |-> NoError]
          [] r.out = "raise" ->
                 [stack |-> <<>>, events |-> asked, property_set |-> ps,
                  status |-> "raised", err |-> r.err]

\* the pass the step of the execution runs, if it runs one
LeafTask(stk, ps) ==
    LET r == iter_tasks(Top(stk).ctrl, Top(stk).gen, ps)
    IN  IF r.out = "yield" /\ ~isController(r.task) THEN <<r.task>> ELSE <<>>

\* how many passes the events tell of: the IR is the circuit after so many
\* passes
PassesRun(events) == Len(SelectSeq(events, LAMBDA e : e.op = "run"))

----------------------------------------------------------------------------
(* runningpassmanager.py: the callback of RunningPassManager.run *)

\* the `callback` argument of run: None, or a function that records its
\* arguments
Callbacks == {"None", "observer"}

\* task.is_analysis_pass: the pass writes the property set and leaves the IR
is_analysis_pass(task) == task.effect # "keep"

\* task.preserves, empty unless a pass declares otherwise
preserves(task) == {}

\* self._callback(pass_=task, dag=passmanager_ir, time=running_time,
\*                property_set=self.property_set, count=None)
CallbackCall(task, passmanager_ir, running_time, ps) ==
    [pass_ |-> task.name, dag |-> passmanager_ir, time |-> running_time,
     property_set |-> ps, count |-> "None"]

\* the callback is called before and after the bookkeeping
_finalize_twice(self, task, passmanager_ir, running_time) ==
    LET added == self.valid_passes \cup {task.name}
        once == CallbackCall(task, passmanager_ir, running_time, self.property_set)
    IN  [valid_passes |-> IF is_analysis_pass(task) THEN added
                          ELSE added \cap preserves(task),
         calls |-> IF self.callback # "None" THEN <<once, once>> ELSE <<>>]

\* RunningPassManager._finalize(task, passmanager_ir, running_time):
\* valid_passes after, and the calls of the callback it makes
_finalize(self, task, passmanager_ir, running_time) ==
    LET added == self.valid_passes \cup {task.name}
    IN  [valid_passes |-> IF is_analysis_pass(task) THEN added
                          ELSE added \cap preserves(task),
         calls |-> IF self.callback # "None"
                   THEN <<CallbackCall(task, passmanager_ir, running_time,
                                       self.property_set)>>
                   ELSE <<>>]

----------------------------------------------------------------------------
(* The program around the FlowController class *)

Cls == Class(registered_controllers, hierarchy)

NoFCall == [op |-> "none", name |-> "", controller |-> "", passes |-> ASequence(<<>>),
            options |-> NoOptions, controllers |-> NoControllers]

NoResult == NotMade(NoError)

\* the controller the last call returned
root == fresult.obj

\* FlowController.add_flow_controller(name, controller)
Add(name, controller) ==
    /\ LET r == add_flow_controller(Cls, name, controller)
       IN  /\ registered_controllers' = r.cls.registered_controllers
           /\ hierarchy' = r.cls.hierarchy
           /\ fresult' = NotMade(r.err)
    /\ fcall' = [NoFCall EXCEPT !.op = "add", !.name = name, !.controller = controller]
    /\ fpre' = Cls
    /\ UNCHANGED <<schedVars, occVars, property_set, iterVars, runVars, mgrVars>>

\* FlowController.remove_flow_controller(name)
Remove(name) ==
    /\ LET r == remove_flow_controller(Cls, name)
       IN  /\ registered_controllers' = r.cls.registered_controllers
           /\ hierarchy' = r.cls.hierarchy
           /\ fresult' = NotMade(r.err)
    /\ fcall' = [NoFCall EXCEPT !.op = "remove", !.name = name]
    /\ fpre' = Cls
    /\ UNCHANGED <<schedVars, occVars, property_set, iterVars, runVars, mgrVars>>

\* FlowController.controller_factory(passes, options, **controllers)
Factory(passes, options, controllers) ==
    /\ fresult' = controller_factory(Cls, passes, options, controllers)
    /\ fcall' = [NoFCall EXCEPT !.op = "factory", !.passes = passes, !.options = options,
                                !.controllers = controllers]
    /\ fpre' = Cls
    /\ UNCHANGED <<registered_controllers, hierarchy>>
    /\ UNCHANGED <<schedVars, occVars, property_set, iterVars, runVars, mgrVars>>

\* class_type(tasks), class_type(tasks, condition=...) or
\* class_type(tasks, do_while=...) called by a program
NewController(class_type, tasks, callable, options) ==
    /\ fresult' = CASE class_type = "FlowControllerLinear" ->
                           FlowControllerLinear(tasks, options)
                     [] class_type = "ConditionalController" ->
                           ConditionalController(tasks, callable, options)
                     [] class_type = "DoWhileController" ->
                           DoWhileController(tasks, callable, options)
    /\ fcall' = [NoFCall EXCEPT !.op = "construct", !.controller = class_type,
                                !.passes = tasks, !.options = options]
    /\ fpre' = Cls
    /\ UNCHANGED <<registered_controllers, hierarchy>>
    /\ UNCHANGED <<schedVars, occVars, property_set, iterVars, runVars, mgrVars>>

\* the caller drops what the factory returned or raised and goes on
Again ==
    /\ fcall' = NoFCall
    /\ fresult' = NoResult
    /\ fpre' = Cls
    /\ UNCHANGED <<registered_controllers, hierarchy>>
    /\ UNCHANGED <<schedVars, occVars, property_set, iterVars, runVars, mgrVars>>

----------------------------------------------------------------------------
(* The program around a Schedule *)

Self == [children |-> children, occupancy |-> occupancy]

\* the items of the list a caller hands to the constructor: a short and a long
\* drive pulse on x, a short one on y, a frame change, a Schedule, a non-pulse
ListItems ==
    {DrivePulse(1, "x"), DrivePulse(MaxDur, "x"), DrivePulse(1, "y"),
     FrameChangePulse("x"), ScheduleItem, InvalidItem}

\* the (t0, pulse) pairs of that list
Pairs == Times \X ListItems

ScheduleLists == UNION {[1 .. n -> Pairs] : n \in 0 .. MaxChildren}

NoCall == [op |-> "none", t0 |-> 0, pulse |-> InvalidItem, schedules |-> <<>>, value |-> 0]

\* the schedule itself handed over as the item: a Schedule is a Pulse whose
\* duration is its end_time and whose occupancy is its own
SelfItem == [kind |-> "Schedule", duration |-> end_time(Self), occupancy |-> occupancy]

\* schedule = Schedule(device, schedules): the first statement of the program;
\* when __init__ raises there is no object
New(schedules) ==
    /\ LET r == Schedule__init__(schedules)
       IN  /\ constructed' = (r.err = NoError)
           /\ children' = IF r.err = NoError THEN r.children ELSE <<>>
           /\ occupancy' = IF r.err = NoError THEN r.occupancy ELSE TimeslotOccupancy(<<>>)
           /\ err' = r.err
    /\ call' = [NoCall EXCEPT !.op = "new", !.schedules = schedules]
    /\ pre' = Self
    /\ UNCHANGED <<occVars, pipeVars>>

\* schedule.insert(t0, pulse)
Insert(t0, pulse) ==
    /\ LET r == insert(Self, t0, pulse)
       IN  /\ children' = r.children
           /\ occupancy' = r.occupancy
           /\ err' = r.err
    /\ call' = [NoCall EXCEPT !.op = "insert", !.t0 = t0, !.pulse = pulse]
    /\ pre' = Self
    /\ UNCHANGED <<constructed, occVars, pipeVars>>

\* schedule.append(pulse)
AppendPulse(pulse) ==
    /\ LET r == append(Self, pulse)
       IN  /\ children' = r.children
           /\ occupancy' = r.occupancy
           /\ err' = r.err
    /\ call' = [NoCall EXCEPT !.op = "append", !.pulse = pulse]
    /\ pre' = Self
    /\ UNCHANGED <<constructed, occVars, pipeVars>>

\* schedule.end_time()
EndTime ==
    /\ call' = [NoCall EXCEPT !.op = "end_time", !.value = end_time(Self)]
    /\ err' = NoError
    /\ pre' = Self
    /\ UNCHANGED <<children, occupancy, constructed, occVars, pipeVars>>

\* the caller catches what the last call raised and goes on with the same object
Catch ==
    /\ call' = [NoCall EXCEPT !.op = "caught"]
    /\ err' = NoError
    /\ pre' = Self
    /\ UNCHANGED <<children, occupancy, constructed, occVars, pipeVars>>

IdleSched ==
    /\ children = <<>>
    /\ occupancy = TimeslotOccupancy(<<>>)
    /\ constructed = FALSE
    /\ call = NoCall
    /\ err = NoError
    /\ pre = [children |-> <<>>, occupancy |-> TimeslotOccupancy(<<>>)]

\* no TimeslotOccupancy has been constructed from `slots` yet
NotBuilt == [err |-> Error("unbuilt", ""), timeslots |-> <<>>, table |-> EmptyTable]

\* no call made on a TimeslotOccupancy yet
NoOCall == [op |-> "none", other |-> NotBuilt, time |-> 0]
NoOResult == [value |-> FALSE, occ |-> NotBuilt]

IdleMerge ==
    /\ occA = TimeslotOccupancy(<<>>)
    /\ ocall = NoOCall
    /\ oresult = NoOResult
    /\ opre = TimeslotOccupancy(<<>>)

IdleIv ==
    /\ operands = <<Interval(0, 0), Interval(0, 0)>>
    /\ overlap = "unasked"

IdleOcc ==
    /\ slots = <<>>
    /\ occ = NotBuilt
    /\ IdleMerge
    /\ IdleIv

Idle == [status |-> "idle", err |-> NoError]
NoPrev == [yielded |-> <<>>, status |-> "idle"]

IdleIter ==
    /\ ctrl = FlowControllerLinear(ASequence(<<>>), NoOptions).obj
    /\ gen = NewGenerator
    /\ yielded = <<>>
    /\ evals = <<>>
    /\ outcome = Idle
    /\ entry = [x |-> 0]
    /\ calls = 0
    /\ prev = NoPrev

\* the FlowController class as the import of flow_controllers.py leaves it
IdleFact ==
    /\ registered_controllers = Imported.registered_controllers
    /\ hierarchy = Imported.hierarchy
    /\ fcall = NoFCall
    /\ fresult = NoResult
    /\ fpre = Imported

IdleRun ==
    /\ stack = <<>>
    /\ trace = <<>>
    /\ run_outcome = Idle
    /\ ps0 = [x |-> 0]
    /\ callback = "None"
    /\ observed = <<>>
    /\ valid_passes = {}

\* no method of RunningPassManager has been called
NoMCall == [name |-> <<>>, raises |-> NoError]

IdleMgr ==
    /\ mcall = NoMCall
    /\ mresult = [done |-> FALSE, err |-> NoError]

IdlePipe ==
    /\ property_set = [x |-> 0]
    /\ IdleIter
    /\ IdleFact
    /\ IdleRun
    /\ IdleMgr

SchedInit == IdleSched /\ IdleOcc /\ IdlePipe

\* the calls a program makes on the schedule, one at a time
NewStep ==
    /\ ~constructed
    /\ call = NoCall
    /\ \E schedules \in ScheduleLists : New(schedules)

InsertStep ==
    /\ constructed
    /\ err = NoError
    /\ Len(children) < MaxChildren
    /\ \E t0 \in Times, pulse \in Items \cup {SelfItem} : Insert(t0, pulse)

AppendStep ==
    /\ constructed
    /\ err = NoError
    /\ Len(children) < MaxChildren
    /\ \E pulse \in Items \cup {SelfItem} : AppendPulse(pulse)

EndTimeStep ==
    /\ constructed
    /\ err = NoError
    /\ call.op # "end_time"
    /\ EndTime

CatchStep ==
    /\ constructed
    /\ err # NoError
    /\ Catch

SchedNext == NewStep \/ InsertStep \/ AppendStep \/ EndTimeStep \/ CatchStep

SpecSchedule == SchedInit /\ [][SchedNext]_vars

----------------------------------------------------------------------------
(* TimeslotOccupancy(timeslots) on the lists of at most MaxSlots timeslots *)

SlotValues ==
    {Timeslot(Interval(b, d), ch) : b \in 0 .. MaxBegin, d \in 0 .. MaxDur, ch \in Channels}

SlotLists == UNION {[1 .. n -> SlotValues] : n \in 0 .. MaxSlots}

OccInit ==
    /\ IdleSched
    /\ IdlePipe
    /\ IdleMerge
    /\ IdleIv
    /\ slots \in SlotLists
    /\ occ = NotBuilt

\* occ = TimeslotOccupancy(slots)
Construct ==
    /\ occ = NotBuilt
    /\ occ' = TimeslotOccupancy(slots)
    /\ UNCHANGED <<slots, mergeVars, ivVars, schedVars, pipeVars>>

OccNext == Construct

SpecOccupancy == OccInit /\ [][OccNext]_vars

----------------------------------------------------------------------------
(* A program that holds a TimeslotOccupancy and calls its methods *)

\* an occupancy is made of at most MaxOperand timeslots
OperandLists == UNION {[1 .. n -> SlotValues] : n \in 0 .. MaxOperand}

\* the objects the constructor returns for these lists
Occupancies ==
    {o \in {TimeslotOccupancy(l) : l \in OperandLists} : o.err = NoError}

MergeInit ==
    /\ IdleSched
    /\ IdlePipe
    /\ slots = <<>>
    /\ occ = NotBuilt
    /\ IdleIv
    /\ occA \in Occupancies
    /\ ocall = NoOCall
    /\ oresult = NoOResult
    /\ opre = occA

\* occA.is_mergeable_with(other): the reads of the defaultdict stay in occA
IsMergeable(other) ==
    /\ LET r == is_mergeable_with(occA, other)
       IN  /\ oresult' = [NoOResult EXCEPT !.value = r.result]
           /\ occA' = [occA EXCEPT !.table = r.table]
    /\ ocall' = [NoOCall EXCEPT !.op = "is_mergeable_with", !.other = other]
    /\ opre' = occA
    /\ UNCHANGED <<slots, occ, ivVars, schedVars, pipeVars>>

\* occA.merged(other)
Merged(other) ==
    /\ oresult' = [NoOResult EXCEPT !.occ = merged(occA, other)]
    /\ ocall' = [NoOCall EXCEPT !.op = "merged", !.other = other]
    /\ opre' = occA
    /\ UNCHANGED <<occA, slots, occ, ivVars, schedVars, pipeVars>>

\* occA.shifted(time)
Shifted(time) ==
    /\ oresult' = [NoOResult EXCEPT !.occ = shifted(occA, time)]
    /\ ocall' = [NoOCall EXCEPT !.op = "shifted", !.time = time]
    /\ opre' = occA
    /\ UNCHANGED <<occA, slots, occ, ivVars, schedVars, pipeVars>>

\* the caller is done with the result and goes on with the same object
Forget ==
    /\ ocall' = NoOCall
    /\ oresult' = NoOResult
    /\ opre' = occA
    /\ UNCHANGED <<occA, slots, occ, ivVars, schedVars, pipeVars>>

IsMergeableStep ==
    /\ ocall = NoOCall
    /\ \E other \in Occupancies : IsMergeable(other)

MergedStep ==
    /\ ocall = NoOCall
    /\ \E other \in Occupancies : Merged(other)

ShiftedStep ==
    /\ ocall = NoOCall
    /\ \E time \in Times : Shifted(time)

ForgetStep ==
    /\ ocall # NoOCall
    /\ Forget

MergeNext == IsMergeableStep \/ MergedStep \/ ShiftedStep \/ ForgetStep

SpecMerge == MergeInit /\ [][MergeNext]_vars

----------------------------------------------------------------------------
(* Two Interval objects and one call a.has_overlap(b). The method returns  *)
(* True from inside its `if` and falls off the end otherwise, which gives  *)
(* None.                                                                   *)

\* Interval(begin, duration) over small arguments
SmallIntervals == { Interval(b, d) : b \in 0 .. MaxBegin, d \in 0 .. MaxDur }

\* the intervals of ten and five time units that meet or cross at 10
TouchingIntervals == { Interval(0, 10), Interval(10, 5), Interval(9, 5) }

IntervalValues == SmallIntervals \cup TouchingIntervals

IntervalInit ==
    /\ operands \in IntervalValues \X IntervalValues
    /\ overlap = "unasked"
    /\ slots = <<>>
    /\ occ = NotBuilt
    /\ IdleMerge
    /\ IdleSched
    /\ IdlePipe

\* operands[1].has_overlap(operands[2])
HasOverlap ==
    /\ overlap = "unasked"
    /\ overlap' = IF has_overlap(operands[1], operands[2]) THEN "True" ELSE "None"
    /\ UNCHANGED <<operands, slots, occ, mergeVars, schedVars, pipeVars>>

IntervalNext == HasOverlap

SpecInterval == IntervalInit /\ [][IntervalNext]_vars

----------------------------------------------------------------------------
(* runningpassmanager.py: the loop that ends the module replaces every     *)
(* function of the class RunningPassManager whose name does not start with *)
(* "_" by _replace_error of it. A name is the sequence of its characters.  *)

\* ex.message: the text the exception was raised with
message(ex) == ex.msg

\* `except Exception as ex:` in place of `except PassManagerError as ex:`
_replace_error_any(raised) ==
    IF raised # NoError
    THEN Error("TranspilerError", message(raised))
    ELSE raised

\* _replace_error(meth): what wrapper raises when meth raises `raised`
\* (NoError: meth returns, and so does wrapper)
_replace_error(raised) ==
    IF raised.type = "PassManagerError"
    THEN Error("TranspilerError", message(raised))
    ELSE raised

\* str.startswith
startswith(name, prefix) ==
    /\ Len(name) >= Len(prefix)
    /\ SubSeq(name, 1, Len(prefix)) = prefix

\* inspect.getmembers(RunningPassManager, predicate=inspect.isfunction): the
\* functions the class defines, append, run and _finalize, and those it has
\* from FlowControllerLinear, __init__ and iter_tasks
Members ==
    { <<"a", "p", "p", "e", "n", "d">>,
      <<"r", "u", "n">>,
      <<"_", "f", "i", "n", "a", "l", "i", "z", "e">>,
      <<"_", "_", "i", "n", "i", "t", "_", "_">>,
      <<"i", "t", "e", "r", "_", "t", "a", "s", "k", "s">> }

\* the class after the loop: for each name, whether the attribute is the
\* function itself or the wrapper around it
RunningPassManager ==
    [_name \in Members |->
        IF startswith(_name, <<"_">>) THEN "meth" ELSE "wrapper"]

\* what the body of a method raises: nothing, a PassManagerError of the flow
\* controllers, or an error of another kind
RaisedKinds == {"PassManagerError", "TranspilerError", "KeyError", "TypeError",
                "NotImplementedError"}

RaisedMessages ==
    {"Maximum iteration reached. max_iteration=%i",
     "Added tasks are not all valid pass manager task types.",
     "The controller needs a callable. Value cannot be None.",
     ""}

Raised == {NoError} \cup { Error(k, msg) : k \in RaisedKinds, msg \in RaisedMessages }

ManagerInit == IdleSched /\ IdleOcc /\ IdlePipe

\* running_pass_manager.<name>(...), whose body raises `raised`
Call(name, raised) ==
    /\ mcall' = [name |-> name, raises |-> raised]
    /\ mresult' = [done |-> TRUE,
                   err |-> IF RunningPassManager[name] = "wrapper"
                           THEN _replace_error(raised)
                           ELSE raised]
    /\ UNCHANGED <<schedVars, occVars, property_set, iterVars, factVars, runVars>>

\* the caller handles what the call raised or returned
Handled ==
    /\ mcall' = NoMCall
    /\ mresult' = [done |-> FALSE, err |-> NoError]
    /\ UNCHANGED <<schedVars, occVars, property_set, iterVars, factVars, runVars>>

CallStep ==
    /\ ~mresult.done
    /\ \E name \in Members, raised \in Raised : Call(name, raised)

HandledStep ==
    /\ mresult.done
    /\ Handled

ManagerNext == CallStep \/ HandledStep

SpecManager == ManagerInit /\ [][ManagerNext]_vars

----------------------------------------------------------------------------
(* One flow controller and its consumer: for task in ctrl.iter_tasks(property_set), *)
(* the loop BaseController.execute runs. Entering the loop creates the     *)
(* generator and resumes it at once; the loop body, and whatever runs      *)
(* between two loops, may write to property_set.                           *)

PassNames == {"A", "B"}

TaskLists == UNION {[1 .. n -> {Pass(name, "keep") : name \in PassNames}] : n \in 0 .. MaxTasks}

IterCallables == {"x_eq_1", "always"}

IterControllers ==
    {FlowControllerLinear(ASequence(ts), NoOptions).obj : ts \in TaskLists}
    \cup {ConditionalController(ASequence(ts), f, NoOptions).obj :
              ts \in TaskLists, f \in IterCallables}
    \cup {DoWhileController(ASequence(ts), f, WithMaxIteration(n)).obj :
              ts \in TaskLists, f \in IterCallables, n \in 0 .. MaxIter}
    \cup {DoWhileController(ASequence(<<Pass("A", "keep")>>), "always", NoOptions).obj}

IterInit ==
    /\ IdleSched
    /\ IdleOcc
    /\ IdleFact
    /\ IdleRun
    /\ IdleMgr
    /\ property_set \in PropertySets
    /\ ctrl \in IterControllers
    /\ gen = NewGenerator
    /\ yielded = <<>>
    /\ evals = <<>>
    /\ outcome = Idle
    /\ entry = property_set
    /\ calls = 0
    /\ prev = NoPrev

\* what a resumption that ended in `out` leaves
Resumed(r) ==
    [status |-> CASE r.out = "yield" -> "running"
                  [] r.out = "return" -> "returned"
                  [] r.out = "raise" -> "raised",
     err |-> r.err]

\* a for loop over ctrl.iter_tasks(property_set) begins
IterCall ==
    /\ outcome.status # "running"
    /\ calls < MaxCalls
    /\ LET r == iter_tasks(ctrl, NewGenerator, property_set)
       IN  /\ gen' = r.gen
           /\ yielded' = IF r.out = "yield" THEN <<r.task.name>> ELSE <<>>
           /\ evals' = r.evals
           /\ outcome' = Resumed(r)
    /\ entry' = property_set
    /\ calls' = calls + 1
    /\ prev' = [yielded |-> yielded, status |-> outcome.status]
    /\ UNCHANGED <<ctrl, property_set, schedVars, occVars, factVars, runVars, mgrVars>>

\* the loop asks the generator for the next task
IterNext ==
    /\ outcome.status = "running"
    /\ LET r == iter_tasks(ctrl, gen, property_set)
       IN  /\ gen' = r.gen
           /\ yielded' = IF r.out = "yield" THEN Append(yielded, r.task.name) ELSE yielded
           /\ evals' = evals \o r.evals
           /\ outcome' = Resumed(r)
    /\ UNCHANGED <<ctrl, property_set, entry, calls, prev, schedVars, occVars, factVars, runVars, mgrVars>>

\* a task, or the code between two loops, writes property_set["x"]
Mutate ==
    /\ calls > 0
    /\ \E ps \in PropertySets \ {property_set} : property_set' = ps
    /\ UNCHANGED <<iterVars, schedVars, occVars, factVars, runVars, mgrVars>>

IterStep == IterCall \/ IterNext \/ Mutate

SpecIter == IterInit /\ [][IterStep]_vars

----------------------------------------------------------------------------
(* A program that registers and removes controllers and calls the factory *)

FactoryCallables == {"None", "x_eq_0", "always"}

\* an object that is no Task
NotATask == [kind |-> "object"]

FactoryPasses ==
    {ASequence(<<Pass("A", "keep")>>),
     OneObject(Pass("A", "keep")),
     OneObject(ConditionalController(ASequence(<<Pass("A", "keep")>>), "always", NoOptions).obj),
     ASequence(<<NotATask>>)}

FactoryOptions == {NoOptions, WithMaxIteration(1)}

\* `tasks` as a caller passes it to a constructor
ConstructorTasks ==
    FactoryPasses
    \cup {ASequence(<<>>),
          OneObject(NotATask),
          ASequence(<<Pass("A", "keep"), NotATask>>),
          ASequence(<<NotATask, Pass("A", "keep")>>)}

ControllerDicts == UNION {[S -> FactoryCallables] : S \in SUBSET Aliases}

FactInit == IdleSched /\ IdleOcc /\ IdlePipe

AddStep ==
    /\ fcall.op \notin {"factory", "construct"}
    /\ \E name \in Aliases, controller \in ControllerClasses : Add(name, controller)

RemoveStep ==
    /\ fcall.op \notin {"factory", "construct"}
    /\ \E name \in Aliases : Remove(name)

FactoryStep ==
    /\ fcall.op \notin {"factory", "construct"}
    /\ \E passes \in FactoryPasses, options \in FactoryOptions, controllers \in ControllerDicts :
           Factory(passes, options, controllers)

NewControllerStep ==
    /\ fcall.op \notin {"factory", "construct"}
    /\ \E class_type \in ControllerKinds, tasks \in ConstructorTasks, options \in FactoryOptions :
           NewController(class_type, tasks, "always", options)

AgainStep ==
    /\ fcall.op \in {"factory", "construct"}
    /\ Again

FactNext == AddStep \/ RemoveStep \/ FactoryStep \/ NewControllerStep \/ AgainStep

SpecFactory == FactInit /\ [][FactNext]_vars

----------------------------------------------------------------------------
(* A program that builds one controller, through the factory or with the  *)
(* constructors, and runs it on a property set                            *)

PassName(k) == IF k % 2 = 1 THEN "A" ELSE "B"

RunTaskLists ==
    UNION {{[k \in 1 .. n |-> Pass(PassName(k), es[k])] : es \in [1 .. n -> {"keep", "inc"}]} :
               n \in 1 .. MaxTasks}

RunCallables == {"x_eq_0", "x_lt_max"}

BuiltinAliases == DOMAIN Imported.registered_controllers

RunControllerDicts == UNION {[S -> RunCallables] : S \in SUBSET BuiltinAliases}

\* Linear[TaskA, Conditional(x == 1, [TaskB]), TaskA2]
Scenario(effect) ==
    FlowControllerLinear(
        ASequence(<<Pass("TaskA", effect),
                    ConditionalController(ASequence(<<Pass("TaskB", "keep")>>), "x_eq_1",
                                          NoOptions).obj,
                    Pass("TaskA2", "keep")>>),
        NoOptions)

RunInit ==
    /\ IdleSched
    /\ IdleOcc
    /\ IdleIter
    /\ IdleFact
    /\ IdleMgr
    /\ property_set \in PropertySets
    /\ stack = <<>>
    /\ trace = <<>>
    /\ run_outcome = Idle
    /\ ps0 = property_set
    /\ callback = "None"
    /\ observed = <<>>
    /\ valid_passes = {}

Built == fcall.op \in {"factory", "direct"}

\* the controller is built with the constructors
Direct(made) ==
    /\ fresult' = made
    /\ fcall' = [NoFCall EXCEPT !.op = "direct"]
    /\ fpre' = Cls
    /\ UNCHANGED <<registered_controllers, hierarchy>>
    /\ UNCHANGED <<schedVars, occVars, property_set, iterVars, runVars, mgrVars>>

\* RunningPassManager.run(circuit, callback=cb) begins: the callback is
\* stored and the root controller is iterated
Start(cb) ==
    /\ callback' = cb
    /\ stack' = <<Frame(root)>>
    /\ run_outcome' = [status |-> "running", err |-> NoError]
    /\ ps0' = property_set
    /\ UNCHANGED <<trace, observed, valid_passes, property_set, schedVars, occVars, iterVars,
                   factVars, mgrVars>>

\* the run goes on by one step; a pass that was run is finalized
Execute ==
    /\ LET r == execute(stack, property_set)
           ran == LeafTask(stack, property_set)
           fin == IF ran = <<>>
                  THEN [valid_passes |-> valid_passes, calls |-> <<>>]
                  ELSE _finalize([valid_passes |-> valid_passes, callback |-> callback,
                                  property_set |-> r.property_set],
                                 ran[1], PassesRun(trace) + 1, "running_time")
       IN  /\ stack' = r.stack
           /\ trace' = trace \o r.events
           /\ property_set' = r.property_set
           /\ run_outcome' = [status |-> r.status, err |-> r.err]
           /\ observed' = observed \o fin.calls
           /\ valid_passes' = fin.valid_passes
    /\ UNCHANGED <<ps0, callback, schedVars, occVars, iterVars, factVars, mgrVars>>

RunAddStep ==
    /\ ~Built
    /\ \E name \in BuiltinAliases : Add(name, Imported.registered_controllers[name])

RunRemoveStep ==
    /\ ~Built
    /\ \E name \in BuiltinAliases : Remove(name)

RunFactoryStep ==
    /\ ~Built
    /\ \E ts \in RunTaskLists, n \in 1 .. MaxIter, controllers \in RunControllerDicts :
           Factory(ASequence(ts), WithMaxIteration(n), controllers)

DirectStep ==
    /\ ~Built
    /\ \E effect \in Effects : Direct(Scenario(effect))

StartStep ==
    /\ Built
    /\ fresult.err = NoError
    /\ run_outcome = Idle
    /\ \E cb \in Callbacks : Start(cb)

ExecuteStep ==
    /\ run_outcome.status = "running"
    /\ Execute

RunNext ==
    RunAddStep \/ RunRemoveStep \/ RunFactoryStep \/ DirectStep \/ StartStep \/ ExecuteStep

SpecRun == RunInit /\ [][RunNext]_vars

----------------------------------------------------------------------------
(* What the claims compare the code with, written without the code's operators *)

\* the timeslots of a pulse moved by t0, as (begin, end, channel)
Moved(pulse, t0) ==
    [k \in 1 .. Len(pulse.occupancy.timeslots) |->
        LET ts == pulse.occupancy.timeslots[k]
        IN  Timeslot([begin |-> ts.interval.begin + t0, end |-> ts.interval.end + t0],
                     ts.channel)]

\* two timeslots are on one channel and their half-open intervals meet
Clash(s, t) ==
    /\ s.channel = t.channel
    /\ s.interval.begin < t.interval.end
    /\ t.interval.begin < s.interval.end

\* some timeslot of `new` clashes with a timeslot of `committed`
Conflict(committed, new) ==
    \E i \in 1 .. Len(committed), k \in 1 .. Len(new) : Clash(committed[i], new[k])

\* the intervals of the timeslots on channel ch, in list order
OnChannel(timeslots, ch) ==
    LET sel == SelectSeq(timeslots, LAMBDA ts : ts.channel = ch)
    IN  [k \in 1 .. Len(sel) |-> sel[k].interval]

\* the table of an occupancy holds exactly its timeslots, grouped by channel
TableMatches(o) ==
    \A ch \in Channels : TableGet(o.table, ch) = OnChannel(o.timeslots, ch)

OverlapError == Error("ScheduleError", "Fail to insert due to overlap")

LeafCall == call.pulse \in LeafItems /\ call.t0 >= 0

----------------------------------------------------------------------------
(* C1 *)

\* C1: Schedule.insert(t0, item) of a leaf item whose occupancy, shifted by
\* t0 >= 0, overlaps a committed timeslot on the same channel raises the
\* ScheduleError of an admission conflict, and every insert that raises leaves
\* the children, the aggregate timeslots and end_time() as they were.
C1_InsertConflictFailsAtomically ==
    call.op = "insert" =>
        /\ (LeafCall /\ Conflict(pre.occupancy.timeslots, Moved(call.pulse, call.t0)))
               => err = OverlapError
        /\ err # NoError =>
               /\ children = pre.children
               /\ occupancy.timeslots = pre.occupancy.timeslots
               /\ end_time(Self) = end_time(pre)

\* A (duration 2, channel x) is committed at 0 and B (duration 2, channel x)
\* inserted at 1 has failed
C1_Witness ==
    /\ call.op = "insert"
    /\ call.t0 = 1
    /\ call.pulse = DrivePulse(2, "x")
    /\ pre.children = <<TimedPulse(0, DrivePulse(2, "x"))>>
    /\ err = OverlapError
    /\ children = pre.children

----------------------------------------------------------------------------
(* C2 *)

\* the children and timeslots that inserting the pairs of a list one by one
\* leaves, when none of them clashes with an earlier one
RECURSIVE SlotsOfList(_, _)
SlotsOfList(schedules, n) ==
    IF n = 0 THEN <<>>
    ELSE SlotsOfList(schedules, n - 1) \o Moved(schedules[n][2], schedules[n][1])

ListConflict(schedules) ==
    \E n \in 2 .. Len(schedules) :
        Conflict(SlotsOfList(schedules, n - 1), Moved(schedules[n][2], schedules[n][1]))

LeafList(schedules) ==
    \A n \in 1 .. Len(schedules) : schedules[n][2] \in LeafItems /\ schedules[n][1] >= 0

\* C2: insert(t0, item) with t0 >= 0 and a leaf item succeeds iff no timeslot of
\* the item moved by t0 clashes with a committed one; on success (t0, item) is
\* the one new, last child and the aggregate is the old one merged with the
\* moved item. Schedule(device, list) on a list of such pairs succeeds iff no
\* pair clashes with an earlier pair, and then holds the pairs in list order.
C2_InsertSucceedsIffNoConflict ==
    /\ (call.op = "insert" /\ LeafCall) =>
           LET new == Moved(call.pulse, call.t0)
           IN  /\ err = NoError <=> ~Conflict(pre.occupancy.timeslots, new)
               /\ err # NoError => err = OverlapError
               /\ err = NoError =>
                      /\ children = Append(pre.children, TimedPulse(call.t0, call.pulse))
                      /\ occupancy.timeslots = pre.occupancy.timeslots \o new
                      /\ occupancy.err = NoError
                      /\ TableMatches(occupancy)
    /\ (call.op = "new" /\ LeafList(call.schedules)) =>
           /\ err = NoError <=> ~ListConflict(call.schedules)
           /\ err # NoError => err = OverlapError /\ ~constructed
           /\ err = NoError =>
                  /\ constructed
                  /\ children = [n \in 1 .. Len(call.schedules) |->
                                    TimedPulse(call.schedules[n][1], call.schedules[n][2])]
                  /\ occupancy.timeslots = SlotsOfList(call.schedules, Len(call.schedules))
                  /\ TableMatches(occupancy)

\* a second child has been inserted right where the first one ends
C2_Witness ==
    /\ call.op = "insert"
    /\ err = NoError
    /\ Len(pre.children) = 1
    /\ Len(children) = 2
    /\ children[1].pulse = DrivePulse(1, "x")
    /\ children[2] = TimedPulse(1, DrivePulse(2, "x"))

----------------------------------------------------------------------------
(* C10 *)

\* C10: TimeslotOccupancy(timeslots) raises 'cannot create from overlapped
\* timeslots' iff two of the timeslots, anywhere in the list, are on the same
\* channel and overlap; otherwise the object holds the timeslots as given.
C10_ConstructionFailsIffOverlap ==
    occ # NotBuilt =>
        LET clash == \E i, j \in 1 .. Len(slots) : i < j /\ Clash(slots[i], slots[j])
        IN  /\ clash <=> occ.err = Error("PulseError",
                             "Cannot create TimeslotOccupancy from overlapped timeslots")
            /\ ~clash => /\ occ.err = NoError
                         /\ occ.timeslots = slots
                         /\ TableMatches(occ)

\* the first and the third timeslot overlap on x, with a timeslot between them
\* that overlaps neither; the construction has failed
C10_Witness ==
    /\ occ.err.type = "PulseError"
    /\ slots = <<Timeslot(Interval(0, 2), "x"),
                 Timeslot(Interval(0, 0), "x"),
                 Timeslot(Interval(1, 2), "x")>>

----------------------------------------------------------------------------
(* What the claims on iter_tasks compare the code with *)

\* the names of the tasks of a controller, in order
Names(self) == [k \in 1 .. Len(self.tasks) |-> self.tasks[k].name]

\* seq goes through `names` again and again, as far as it goes
Cycles(seq, names) ==
    \A k \in 1 .. Len(seq) :
        Len(names) > 0 /\ seq[k] = names[((k - 1) % Len(names)) + 1]

\* seq is exactly n repetitions of `names`
Repetitions(seq, names, n) == Len(seq) = n * Len(names) /\ Cycles(seq, names)

AllTrue(bools) == \A k \in 1 .. Len(bools) : bools[k]

----------------------------------------------------------------------------
(* C3 *)

\* C3: with max_iteration = N (1000 when the option is absent) a
\* DoWhileController never yields more than N repetitions of its tasks; when
\* do_while has returned true N times the call raises 'Maximum iteration
\* reached', and a call that raises has yielded exactly N repetitions, in order.
C3_DoWhileCeiling ==
    ctrl.kind = "DoWhileController" =>
        LET N == IF "max_iteration" \in DOMAIN ctrl.options
                 THEN ctrl.options["max_iteration"] ELSE 1000
        IN  /\ Len(yielded) <= N * Len(ctrl.tasks)
            /\ Cycles(yielded, Names(ctrl))
            /\ Len(evals) <= N
            /\ (calls > 0 /\ Len(evals) = N /\ AllTrue(evals)) =>
                   outcome = [status |-> "raised", err |-> MaximumIterationReached(N)]
            /\ outcome.status = "raised" =>
                   /\ outcome.err = MaximumIterationReached(N)
                   /\ Repetitions(yielded, Names(ctrl), N)
                   /\ Len(evals) = N
                   /\ AllTrue(evals)

\* the option is absent, do_while is always true: the call has yielded its
\* task 1000 times and raised
C3_Witness ==
    /\ ctrl.kind = "DoWhileController"
    /\ ctrl.options = NoOptions
    /\ ctrl.do_while = "always"
    /\ outcome.status = "raised"
    /\ Len(yielded) = 1000

----------------------------------------------------------------------------
(* C8 *)

\* C8: a DoWhileController calls do_while once after every complete pass and
\* only then, so the first pass is unconditional; when do_while first returns
\* false after the k-th pass, 1 <= k <= max_iteration, the call has yielded
\* exactly k repetitions and ends without error, also when k = max_iteration;
\* it raises only after do_while has returned true max_iteration times.
C8_DoWhileStopsCleanly ==
    ctrl.kind = "DoWhileController" =>
        LET N == max_iteration(ctrl.options)
            L == Len(ctrl.tasks)
            k == Len(evals)
        IN  /\ outcome.status = "running" =>
                   /\ AllTrue(evals)
                   /\ k * L < Len(yielded)
                   /\ Len(yielded) <= (k + 1) * L
            /\ (k > 0 /\ ~evals[k]) => outcome = [status |-> "returned", err |-> NoError]
            /\ outcome.status = "returned" =>
                   /\ 1 <= k
                   /\ k <= N
                   /\ ~evals[k]
                   /\ AllTrue(SubSeq(evals, 1, k - 1))
                   /\ Repetitions(yielded, Names(ctrl), k)
            /\ outcome.status = "raised" => (k = N /\ AllTrue(evals))

\* max_iteration = 2 and do_while was true after the first pass and false after
\* the second: two repetitions, no error
C8_Witness ==
    /\ ctrl.kind = "DoWhileController"
    /\ ctrl.options = WithMaxIteration(2)
    /\ Names(ctrl) = <<"A", "B">>
    /\ evals = <<TRUE, FALSE>>
    /\ yielded = <<"A", "B", "A", "B">>
    /\ outcome = [status |-> "returned", err |-> NoError]

----------------------------------------------------------------------------
(* C9 *)

\* C9: every call of FlowControllerLinear.iter_tasks yields the tasks of the
\* controller, in order, each once, and returns; it asks nothing of
\* property_set and does not depend on earlier calls.
C9_LinearYieldsAll ==
    ctrl.kind = "FlowControllerLinear" =>
        /\ Len(yielded) <= Len(ctrl.tasks)
        /\ yielded = SubSeq(Names(ctrl), 1, Len(yielded))
        /\ evals = <<>>
        /\ outcome.status # "raised"
        /\ outcome.status = "running" => Len(yielded) >= 1
        /\ outcome.status = "returned" => yielded = Names(ctrl)
        /\ prev.status # "idle" => prev = [yielded |-> Names(ctrl), status |-> "returned"]

\* the second call, made after property_set changed, has yielded A, B again
C9_Witness ==
    /\ ctrl.kind = "FlowControllerLinear"
    /\ calls = 2
    /\ prev = [yielded |-> <<"A", "B">>, status |-> "returned"]
    /\ yielded = <<"A", "B">>
    /\ outcome.status = "returned"
    /\ property_set # entry

----------------------------------------------------------------------------
(* C7 *)

\* C7: each call of ConditionalController.iter_tasks calls the condition
\* once, on property_set as it is when the call begins; the call yields all
\* the tasks in order if that value is true and nothing otherwise, whatever
\* an earlier call did.
C7_ConditionalAtCallTime ==
    (ctrl.kind = "ConditionalController" /\ calls > 0) =>
        LET p == Apply(ctrl.condition, entry)
        IN  /\ evals = <<p>>
            /\ outcome.status # "raised"
            /\ outcome.status = "running" =>
                   /\ p
                   /\ Len(yielded) >= 1
                   /\ yielded = SubSeq(Names(ctrl), 1, Len(yielded))
            /\ outcome.status = "returned" =>
                   yielded = IF p THEN Names(ctrl) ELSE <<>>

\* the first call yielded A, B; property_set changed; the second call of the
\* same controller yielded nothing
C7_Witness ==
    /\ ctrl.kind = "ConditionalController"
    /\ ctrl.condition = "x_eq_1"
    /\ calls = 2
    /\ prev = [yielded |-> <<"A", "B">>, status |-> "returned"]
    /\ yielded = <<>>
    /\ outcome.status = "returned"

----------------------------------------------------------------------------
(* What the claims on the factory and the runner compare the code with *)

\* the controller d levels down from obj, each level being the first task
RECURSIVE Level(_, _)
Level(obj, d) == IF d = 1 THEN obj ELSE Level(obj.tasks[1], d - 1)

\* obj is the controller the factory built for alias a
IsFor(obj, a) ==
    /\ obj.kind = registered_controllers[a]
    /\ obj[Keyword(obj.kind)] = fcall.controllers[a]

Supplied(a) == a \in DOMAIN fcall.controllers

\* the aliases the factory wraps for, in the order of hierarchy
Wrapped == SelectSeq(hierarchy, Supplied)

\* the controllers of aliases[k..], each the single task of the one before,
\* around base
RECURSIVE Nested(_, _, _)
Nested(aliases, k, base) ==
    IF k > Len(aliases)
    THEN base
    ELSE LET a == aliases[k]
             inner == Nested(aliases, k + 1, base)
         IN  IF registered_controllers[a] = "ConditionalController"
             THEN [kind |-> "ConditionalController", tasks |-> <<inner>>,
                   condition |-> fcall.controllers[a], options |-> fcall.options]
             ELSE [kind |-> "DoWhileController", tasks |-> <<inner>>,
                   do_while |-> fcall.controllers[a], options |-> fcall.options]

FactoryReturned == fcall.op = "factory" /\ fresult.err = NoError

BothSupplied ==
    /\ hierarchy = <<"condition", "do_while">>
    /\ registered_controllers = Imported.registered_controllers
    /\ {"condition", "do_while"} \subseteq DOMAIN fcall.controllers

IsRun(e) == e.op = "run"
IsCondition(e) == e.op = "eval" /\ e.who = "ConditionalController"
IsDoWhile(e) == e.op = "eval" /\ e.who = "DoWhileController"

Who(events) == [k \in 1 .. Len(events) |-> events[k].who]
Values(events) == [k \in 1 .. Len(events) |-> events[k].value]

----------------------------------------------------------------------------
(* C4 *)

\* C4 as stated: of two supplied aliases the one later in hierarchy gets the
\* outer controller, and the built-in registration gives a DoWhileController
\* around a ConditionalController around the base controller.
C4_LaterAliasIsOuter ==
    FactoryReturned =>
        /\ \A i, j \in 1 .. Len(hierarchy) :
               (i < j /\ Supplied(hierarchy[i]) /\ Supplied(hierarchy[j])) =>
                   \E di, dj \in 1 .. Len(Wrapped) :
                       /\ dj < di
                       /\ IsFor(Level(root, di), hierarchy[i])
                       /\ IsFor(Level(root, dj), hierarchy[j])
        /\ BothSupplied =>
               /\ root.kind = "DoWhileController"
               /\ Len(root.tasks) = 1
               /\ root.tasks[1].kind = "ConditionalController"
               /\ root.tasks[1].tasks = <<BaseInstance(fcall.passes, fcall.options).obj>>

\* C4, amended: of two aliases supplied to controller_factory the one
\* EARLIER in hierarchy gets the strictly outer controller; with hierarchy =
\* [condition, do_while] the result is a ConditionalController whose single
\* task is a DoWhileController whose single task is the base controller.
C4_EarlierAliasIsOuter ==
    FactoryReturned =>
        /\ \A i, j \in 1 .. Len(hierarchy) :
               (i < j /\ Supplied(hierarchy[i]) /\ Supplied(hierarchy[j])) =>
                   \E di, dj \in 1 .. Len(Wrapped) :
                       /\ di < dj
                       /\ IsFor(Level(root, di), hierarchy[i])
                       /\ IsFor(Level(root, dj), hierarchy[j])
        /\ BothSupplied =>
               /\ root.kind = "ConditionalController"
               /\ Len(root.tasks) = 1
               /\ root.tasks[1].kind = "DoWhileController"
               /\ root.tasks[1].tasks = <<BaseInstance(fcall.passes, fcall.options).obj>>

\* the built-in registration, both predicates supplied with a list of passes:
\* the factory returned Conditional[DoWhile[Linear]]
C4_Witness ==
    /\ FactoryReturned
    /\ BothSupplied
    /\ fcall.passes = ASequence(<<Pass("A", "keep")>>)
    /\ root.kind = "ConditionalController"
    /\ root.tasks[1].kind = "DoWhileController"
    /\ root.tasks[1].tasks[1].kind = "FlowControllerLinear"

----------------------------------------------------------------------------
(* C5 *)

\* C5: controller_factory returns the base controller wrapped once for each
\* supplied alias of hierarchy, each controller the single task of the next,
\* the alias that is first in hierarchy (last in the reversed walk) outermost.
\* Under the built-in registration with condition and do_while supplied, a
\* run of the result calls condition once, on the property set as the run
\* begins; when it is false no pass runs; when it is true the passes run in
\* order, do_while is called after each complete repetition, and the run ends
\* when do_while is false (or raises after max_iteration repetitions).
C5_ReverseWalkNesting ==
    fcall.op = "factory" =>
        /\ fresult = Made(Nested(Wrapped, 1, BaseInstance(fcall.passes, fcall.options).obj))
        /\ (BothSupplied /\ run_outcome.status # "idle") =>
               LET c == Apply(fcall.controllers["condition"], ps0)
                   names == [k \in 1 .. Len(fcall.passes.value) |-> fcall.passes.value[k].name]
                   runs == Who(SelectSeq(trace, IsRun))
                   conds == SelectSeq(trace, IsCondition)
                   whiles == Values(SelectSeq(trace, IsDoWhile))
                   k == Len(whiles)
                   L == Len(names)
                   N == fcall.options["max_iteration"]
               IN  /\ trace # <<>> => trace[1] = EvalEvent(root, c)
                   /\ Len(conds) <= 1
                   /\ ~c => (runs = <<>> /\ whiles = <<>>)
                   /\ (~c /\ trace # <<>>) => run_outcome = [status |-> "done", err |-> NoError]
                   /\ Cycles(runs, names)
                   /\ k * L <= Len(runs)
                   /\ Len(runs) <= (k + 1) * L
                   /\ k <= N
                   /\ AllTrue(SubSeq(whiles, 1, k - 1))
                   /\ (k > 0 /\ ~whiles[k]) => Len(runs) = k * L
                   /\ (run_outcome.status = "done" /\ c) =>
                          (k > 0 /\ ~whiles[k] /\ Repetitions(runs, names, k))
                   /\ run_outcome.status = "raised" =>
                          /\ c
                          /\ k = N
                          /\ AllTrue(whiles)
                          /\ Repetitions(runs, names, N)
                          /\ run_outcome.err = MaximumIterationReached(N)

\* built-in registration, condition x == 0 and do_while x < MaxX supplied: the
\* condition held when the run began, and the run ended after the second
\* repetition, when do_while was false
C5_Witness ==
    /\ FactoryReturned
    /\ BothSupplied
    /\ root.kind = "ConditionalController"
    /\ root.tasks[1].kind = "DoWhileController"
    /\ run_outcome.status = "done"
    /\ SelectSeq(trace, IsCondition) = <<EvalEvent(root, TRUE)>>
    /\ Values(SelectSeq(trace, IsDoWhile)) = <<TRUE, FALSE>>
    /\ Len(SelectSeq(trace, IsRun)) = 2 * Len(fcall.passes.value)

----------------------------------------------------------------------------
(* C6 *)

\* what a run of Scenario(effect) from ps does, from its first event to its last
ScenarioTrace(tree, ps) ==
    LET after == RunEffect(tree.tasks[1].effect, ps)
        p == Apply(tree.tasks[2].condition, after)
    IN  <<RunEvent(tree.tasks[1]), EvalEvent(tree.tasks[2], p)>>
        \o (IF p THEN <<RunEvent(tree.tasks[2].tasks[1])>> ELSE <<>>)
        \o <<RunEvent(tree.tasks[3])>>

\* C6: a run iterates the root and, inside it, every controller a controller
\* yields, the controller on top of the stack being the task the one below
\* yielded last. For Linear[TaskA, Conditional(x == 1, [TaskB]), TaskA2] the
\* events of the run are: TaskA runs, the condition is called on the property
\* set as TaskA left it, TaskB runs if it held, TaskA2 runs; from {x: 1}, with
\* a TaskA that leaves x alone, the passes run in the order TaskA, TaskB, TaskA2.
C6_DepthFirstInOrder ==
    /\ run_outcome.status = "running" =>
           /\ stack # <<>>
           /\ stack[1].ctrl = root
           /\ \A d \in 1 .. Len(stack) - 1 :
                  /\ stack[d].gen.j >= 1
                  /\ stack[d + 1].ctrl = stack[d].ctrl.tasks[stack[d].gen.j]
    /\ fcall.op = "direct" =>
           LET full == ScenarioTrace(root, ps0)
           IN  /\ Len(trace) <= Len(full)
               /\ trace = SubSeq(full, 1, Len(trace))
               /\ run_outcome.status # "raised"
               /\ run_outcome.status = "done" => trace = full
               /\ (run_outcome.status = "done" /\ ps0.x = 1
                       /\ root.tasks[1].effect = "keep") =>
                      Who(SelectSeq(trace, IsRun)) = <<"TaskA", "TaskB", "TaskA2">>

\* the scenario from {x: 1} with a TaskA that leaves x alone: the run is done
\* and TaskA, TaskB, TaskA2 ran in this order, the condition called in between
C6_Witness ==
    /\ fcall.op = "direct"
    /\ ps0 = [x |-> 1]
    /\ root.tasks[1].effect = "keep"
    /\ run_outcome.status = "done"
    /\ trace = <<RunEvent(root.tasks[1]), EvalEvent(root.tasks[2], TRUE),
                 RunEvent(root.tasks[2].tasks[1]), RunEvent(root.tasks[3])>>

----------------------------------------------------------------------------
(* C11 *)

ConstructionError ==
    Error("PulseError", "Cannot create TimeslotOccupancy from overlapped timeslots")

\* C11: a.is_mergeable_with(b) returns true iff no timeslot of b meets a
\* timeslot of a on the same channel; a timeslot of b on a channel where a has
\* no timeslot never makes it false.
C11_MergeableIffNoClash ==
    ocall.op = "is_mergeable_with" =>
        LET a == opre.timeslots
            b == ocall.other.timeslots
        IN  /\ oresult.value <=> ~Conflict(a, b)
            /\ (\A k \in 1 .. Len(b) : \A i \in 1 .. Len(a) : a[i].channel # b[k].channel)
                   => oresult.value

\* a holds [0, 2) on x, b holds [0, 2) on y: mergeable
C11_Witness ==
    /\ ocall.op = "is_mergeable_with"
    /\ opre.timeslots = <<Timeslot(Interval(0, 2), "x")>>
    /\ ocall.other.timeslots = <<Timeslot(Interval(0, 2), "y")>>
    /\ oresult.value

----------------------------------------------------------------------------
(* C12 *)

\* C12: for valid a and b, a.merged(b) raises the error of the constructor
\* exactly when a.is_mergeable_with(b) is false; otherwise it returns a valid
\* occupancy that holds the timeslots of a followed by those of b, and a and b
\* are as they were.
C12_MergedRevalidates ==
    ocall.op = "merged" =>
        LET a == opre
            b == ocall.other
            m == oresult.occ
        IN  /\ m.err # NoError <=> ~is_mergeable_with(a, b).result
            /\ m.err # NoError <=> Conflict(a.timeslots, b.timeslots)
            /\ m.err # NoError => m.err = ConstructionError
            /\ m.err = NoError =>
                   /\ m.timeslots = a.timeslots \o b.timeslots
                   /\ TableMatches(m)
            /\ occA = opre
            /\ b \in Occupancies

\* a holds [0, 2) on x and b holds [1, 3) on x: merged raised
C12_Witness ==
    /\ ocall.op = "merged"
    /\ opre.timeslots = <<Timeslot(Interval(0, 2), "x")>>
    /\ ocall.other.timeslots = <<Timeslot(Interval(1, 2), "x")>>
    /\ oresult.occ.err = ConstructionError
    /\ occA = opre

----------------------------------------------------------------------------
(* C13 *)

\* C13: shifted(time) raises for every time < 0, whatever the occupancy; for
\* time >= 0 it returns a valid occupancy with as many timeslots, the k-th on
\* the channel of the k-th of the receiver with begin and end advanced by
\* time; the receiver is as it was.
C13_ShiftedForwardOnly ==
    ocall.op = "shifted" =>
        LET t == ocall.time
            a == opre.timeslots
            m == oresult.occ
        IN  /\ t < 0 => m.err = Error("PulseError",
                                      "Cannot shift TimeslotOccupancy by negative time")
            /\ t >= 0 =>
                   /\ m.err = NoError
                   /\ Len(m.timeslots) = Len(a)
                   /\ \A k \in 1 .. Len(a) :
                          /\ m.timeslots[k].channel = a[k].channel
                          /\ m.timeslots[k].interval.begin = a[k].interval.begin + t
                          /\ m.timeslots[k].interval.end = a[k].interval.end + t
                   /\ TableMatches(m)
            /\ occA = opre

\* shifted(-1) on an occupancy of one timeslot has raised
C13_Witness ==
    /\ ocall.op = "shifted"
    /\ ocall.time = -1
    /\ Len(opre.timeslots) = 1
    /\ oresult.occ.err = Error("PulseError", "Cannot shift TimeslotOccupancy by negative time")
    /\ occA = opre

\* C14: a.has_overlap(b) answers true exactly when a.begin < b.end and
\* b.begin < a.end, the half-open reading: Interval(0, 10) and
\* Interval(10, 5) only touch and do not overlap, Interval(0, 10) and
\* Interval(9, 5) do.
C14_HalfOpenOverlap ==
    overlap # "unasked" =>
        LET a == operands[1]
            b == operands[2]
        IN  /\ overlap = "True" <=> (a.begin < b.end /\ b.begin < a.end)
            /\ operands = <<Interval(0, 10), Interval(10, 5)>> => overlap = "None"
            /\ operands = <<Interval(0, 10), Interval(9, 5)>> => overlap = "True"

C14_Witness ==
    /\ operands = <<Interval(0, 10), Interval(10, 5)>>
    /\ overlap = "None"

----------------------------------------------------------------------------
(* C15 *)

\* the largest t0 + duration over the children, 0 for none
LatestEnd(kids) ==
    LET ends == { kids[k].t0 + kids[k].pulse.duration : k \in 1 .. Len(kids) }
    IN  IF ends = {} THEN 0 ELSE CHOOSE e \in ends : \A f \in ends : f <= e

\* C15: schedule.append(item) leaves the schedule as insert(end_time(), item)
\* would, end_time() taken before the call, and fails when and as that insert
\* fails (an overlap reworded as a failure to append); the child it adds has
\* t0 equal to the previous end_time(). Whatever inserts and appends came
\* before, append of a leaf item succeeds.
C15_AppendIsInsertAtEnd ==
    call.op = "append" =>
        LET r == insert(pre, LatestEnd(pre.children), call.pulse)
        IN  /\ children = r.children
            /\ occupancy = r.occupancy
            /\ err.type = r.err.type
            /\ err = NoError =>
                   /\ Len(children) = Len(pre.children) + 1
                   /\ children[Len(children)] =
                          TimedPulse(LatestEnd(pre.children), call.pulse)
            /\ call.pulse \in LeafItems => err = NoError

\* after A (duration 2, channel x) at 0, B (duration 1, channel x) was
\* appended and sits at 2
C15_Witness ==
    /\ call.op = "append"
    /\ call.pulse = DrivePulse(1, "x")
    /\ pre.children = <<TimedPulse(0, DrivePulse(2, "x"))>>
    /\ err = NoError
    /\ children = Append(pre.children, TimedPulse(2, DrivePulse(1, "x")))

----------------------------------------------------------------------------
(* C16 *)

\* A (duration 10) at 0 and B (duration 10) at 10 on channel x
TwoTens ==
    insert(insert(Schedule__init__(<<>>), 0, DrivePulse(10, "x")), 10, DrivePulse(10, "x"))

\* C16: schedule.end_time() is the maximum over the children of
\* t0 + item duration, and 0, the begin time of the schedule, when there is no
\* child; after A (duration 10) at 0 and B (duration 10) at 10 on one channel
\* it is 20.
C16_EndTimeIsLatestEnd ==
    /\ call.op = "end_time" =>
           /\ call.value = LatestEnd(children)
           /\ \A k \in 1 .. Len(children) :
                  children[k].t0 + children[k].pulse.duration <= call.value
           /\ children = <<>> => call.value = 0
           /\ children # <<>> =>
                  \E k \in 1 .. Len(children) :
                      call.value = children[k].t0 + children[k].pulse.duration
    /\ TwoTens.err = NoError
    /\ Len(TwoTens.children) = 2
    /\ end_time(TwoTens) = 20

\* end_time() was asked of a schedule whose first child ends last
C16_Witness ==
    /\ call.op = "end_time"
    /\ children = <<TimedPulse(0, DrivePulse(2, "x")), TimedPulse(0, DrivePulse(1, "y"))>>
    /\ call.value = 2

----------------------------------------------------------------------------
(* C17 *)

NotSupported ==
    Error("NotImplementedError", "This version doesn't support schedule of schedules.")

\* the position of the first Schedule in the constructor list, 0 for none
FirstSchedule(schedules) ==
    LET at == { k \in 1 .. Len(schedules) : schedules[k][2].kind = "Schedule" }
    IN  IF at = {} THEN 0 ELSE CHOOSE k \in at : \A j \in at : k <= j

\* C17: insert and append of an item that is a Schedule, the schedule itself
\* included, raise the not-supported error and leave the children and the
\* aggregate occupancy as they were; the constructor raises it when it comes
\* to a Schedule in its list, and then there is no schedule object.
C17_NestingRejected ==
    /\ (call.op \in {"insert", "append"} /\ call.pulse.kind = "Schedule") =>
           /\ err = NotSupported
           /\ children = pre.children
           /\ occupancy = pre.occupancy
    /\ (call.op = "new" /\ FirstSchedule(call.schedules) > 0) =>
           LET k == FirstSchedule(call.schedules)
               before == Schedule__init__(SubSeq(call.schedules, 1, k - 1))
           IN  /\ ~constructed
               /\ err # NoError
               /\ before.err = NoError => err = NotSupported
               /\ children = <<>>

\* a schedule that holds one pulse was inserted into itself at time 0
C17_Witness ==
    /\ call.op = "insert"
    /\ call.t0 = 0
    /\ pre.children = <<TimedPulse(0, DrivePulse(1, "x"))>>
    /\ call.pulse = [kind |-> "Schedule", duration |-> 1, occupancy |-> pre.occupancy]
    /\ err = NotSupported
    /\ children = pre.children
    /\ occupancy = pre.occupancy

----------------------------------------------------------------------------
(* C18 *)

\* C18: a method of RunningPassManager whose name does not start with an
\* underscore (run, append, iter_tasks) raises TranspilerError with the same
\* message when its body raises PassManagerError, and raises or returns what
\* its body does otherwise; a method whose name starts with an underscore
\* (_finalize, __init__) raises what its body raises, PassManagerError
\* included.
C18_PublicMethodsTranslate ==
    mresult.done =>
        LET public == mcall.name[1] # "_"
            inside == mcall.raises
        IN  /\ (public /\ inside.type = "PassManagerError") =>
                   /\ mresult.err.type = "TranspilerError"
                   /\ mresult.err.msg = inside.msg
            /\ (public /\ inside.type # "PassManagerError") => mresult.err = inside
            /\ ~public => mresult.err = inside

\* run raised the PassManagerError of the do-while ceiling and its caller
\* sees a TranspilerError with that message
C18_Witness ==
    /\ mresult.done
    /\ mcall.name = <<"r", "u", "n">>
    /\ mcall.raises = Error("PassManagerError", "Maximum iteration reached. max_iteration=%i")
    /\ mresult.err = Error("TranspilerError", "Maximum iteration reached. max_iteration=%i")

----------------------------------------------------------------------------
(* C19 *)

\* the elements of `tasks`, taken as a sequence, that are no Task
Offenders(tasks) ==
    { AsSequence(tasks)[k] : k \in { j \in 1 .. Len(AsSequence(tasks)) :
                                        ~isTask(AsSequence(tasks)[j]) } }

\* C19: constructing a FlowControllerLinear, ConditionalController or
\* DoWhileController from tasks with an element that is no Task raises an
\* error that names that element, and there is no controller; one Task that
\* is no sequence is taken as the sequence of that one task.
C19_ConstructionNamesOffender ==
    fcall.op = "construct" =>
        /\ Offenders(fcall.passes) # {} =>
               /\ fresult.err # NoError
               /\ fresult.obj = [kind |-> "None"]
               /\ "arg" \in DOMAIN fresult.err
               /\ fresult.err.arg \in Offenders(fcall.passes)
        /\ (~fcall.passes.isSequence /\ isTask(fcall.passes.value)) =>
               /\ fresult.err = NoError
               /\ fresult.obj.kind = fcall.controller
               /\ fresult.obj.tasks = <<fcall.passes.value>>

\* FlowControllerLinear([PassA, object()]) raised the error whose text is the
\* same for every input
C19_Witness ==
    /\ fcall.op = "construct"
    /\ fcall.controller = "FlowControllerLinear"
    /\ fcall.passes = ASequence(<<Pass("A", "keep"), NotATask>>)
    /\ fresult = NotMade(NotAllTasks)

\* what of C19 the constructors do: the error is a PassManagerError, no
\* controller is created, and a single Task becomes a one-element sequence
C19_ConstructionRejectsNonTasks ==
    fcall.op = "construct" =>
        /\ Offenders(fcall.passes) # {} => fresult = NotMade(NotAllTasks)
        /\ Offenders(fcall.passes) = {} =>
               /\ fresult.err = NoError
               /\ fresult.obj.kind = fcall.controller
               /\ fresult.obj.tasks = AsSequence(fcall.passes)

----------------------------------------------------------------------------
(* C20 *)

\* C20: controller_factory raises "The controller needs a callable" whenever
\* a value among the keyword arguments is None, be its alias registered or
\* not; it does so before it builds a controller, so that neither invalid
\* passes nor an alias a class does not take is reported in its place; the
\* registered classes and the hierarchy stay as they were.
C20_NoneCallableRejectedFirst ==
    (fcall.op = "factory"
        /\ \E a \in DOMAIN fcall.controllers : fcall.controllers[a] = "None") =>
        /\ fresult = NotMade(NeedsCallable)
        /\ Cls = fpre

\* None under an alias that is not registered, with passes that are no
\* tasks: the error is that of the callable
C20_Witness ==
    /\ fcall.op = "factory"
    /\ "my_condition" \notin DOMAIN registered_controllers
    /\ DOMAIN fcall.controllers = {"my_condition"}
    /\ fcall.controllers["my_condition"] = "None"
    /\ fcall.passes = ASequence(<<NotATask>>)
    /\ fresult = NotMade(NeedsCallable)
    /\ Cls = fpre

----------------------------------------------------------------------------
(* C21 *)

\* C21: remove_flow_controller(name) for a name that is not registered
\* raises the KeyError "Flow controller not found" and leaves
\* registered_controllers and hierarchy as they were; for a registered name
\* it takes the name out of both and keeps the other names of hierarchy in
\* their order.
C21_RemoveIsExact ==
    fcall.op = "remove" =>
        IF fcall.name \notin Range(fpre.hierarchy)
        THEN /\ fresult.err = NotFound(fcall.name)
             /\ Cls = fpre
        ELSE /\ fresult.err = NoError
             /\ DOMAIN registered_controllers = DOMAIN fpre.registered_controllers \ {fcall.name}
             /\ \A a \in DOMAIN registered_controllers :
                    registered_controllers[a] = fpre.registered_controllers[a]
             /\ hierarchy = SelectSeq(fpre.hierarchy, LAMBDA a : a # fcall.name)

\* "condition" was removed from the three names condition, do_while,
\* my_condition
C21_Witness ==
    /\ fcall.op = "remove"
    /\ fcall.name = "condition"
    /\ fpre.hierarchy = <<"condition", "do_while", "my_condition">>
    /\ fresult.err = NoError
    /\ hierarchy = <<"do_while", "my_condition">>
    /\ DOMAIN registered_controllers = {"do_while", "my_condition"}

----------------------------------------------------------------------------
(* C22 *)

\* C22: add_flow_controller(name, controller) maps name to controller,
\* whatever was registered under it, leaves the other names as they were,
\* and appends name to hierarchy unless it is in it, in which case hierarchy
\* stays as it is; the import of the module leaves hierarchy
\* [condition, do_while] with condition -> ConditionalController and
\* do_while -> DoWhileController.
C22_AddOverwritesAndAppendsOnce ==
    /\ fcall.op = "add" =>
           /\ fresult.err = NoError
           /\ DOMAIN registered_controllers =
                  DOMAIN fpre.registered_controllers \cup {fcall.name}
           /\ registered_controllers[fcall.name] = fcall.controller
           /\ \A a \in DOMAIN fpre.registered_controllers \ {fcall.name} :
                  registered_controllers[a] = fpre.registered_controllers[a]
           /\ hierarchy = IF fcall.name \in Range(fpre.hierarchy)
                          THEN fpre.hierarchy
                          ELSE Append(fpre.hierarchy, fcall.name)
    /\ Imported.hierarchy = <<"condition", "do_while">>
    /\ DOMAIN Imported.registered_controllers = {"condition", "do_while"}
    /\ Imported.registered_controllers["condition"] = "ConditionalController"
    /\ Imported.registered_controllers["do_while"] = "DoWhileController"

\* "condition", first of three names, was registered again with another
\* class and kept its place
C22_Witness ==
    /\ fcall.op = "add"
    /\ fcall.name = "condition"
    /\ fcall.controller = "DoWhileController"
    /\ fpre.hierarchy = <<"condition", "do_while", "my_condition">>
    /\ fpre.registered_controllers["condition"] = "ConditionalController"
    /\ hierarchy = fpre.hierarchy
    /\ registered_controllers["condition"] = "DoWhileController"

----------------------------------------------------------------------------
(* C30 *)

\* C30: whatever add_flow_controller and remove_flow_controller calls were
\* made, failed removals and repeated registrations among them, hierarchy
\* holds no name twice and holds exactly the keys of registered_controllers.
C30_RegistryConsistent ==
    /\ \A i, j \in 1 .. Len(hierarchy) : hierarchy[i] = hierarchy[j] => i = j
    /\ Range(hierarchy) = DOMAIN registered_controllers

\* a removal has just failed on a registry that was emptied and filled again
\* in another order
C30_Witness ==
    /\ fcall.op = "remove"
    /\ fresult.err = NotFound(fcall.name)
    /\ hierarchy = <<"do_while", "condition">>
    /\ DOMAIN registered_controllers = {"condition", "do_while"}

----------------------------------------------------------------------------
(* C29 *)

\* the keyword arguments of the factory call under registered aliases
RegisteredOnly ==
    [a \in DOMAIN fcall.controllers \cap Range(fpre.hierarchy) |-> fcall.controllers[a]]

\* C29: controller_factory, given callables only, returns or raises what it
\* does for the keyword arguments under registered aliases alone: an alias
\* that is not registered raises nothing and adds nothing. What it returns
\* is the base controller inside one controller for each supplied alias of
\* hierarchy, and registered_controllers and hierarchy stay as they were.
C29_UnregisteredAliasIgnored ==
    (fcall.op = "factory"
        /\ \A a \in DOMAIN fcall.controllers : fcall.controllers[a] # "None") =>
        /\ fresult = controller_factory(fpre, fcall.passes, fcall.options, RegisteredOnly)
        /\ Cls = fpre
        /\ fresult.err = NoError =>
               /\ fresult.obj =
                      Nested(Wrapped, 1, BaseInstance(fcall.passes, fcall.options).obj)
               /\ Level(fresult.obj, Len(Wrapped) + 1) =
                      BaseInstance(fcall.passes, fcall.options).obj

\* condition and my_condition were supplied, my_condition is not registered:
\* the result is one ConditionalController around the linear controller
C29_Witness ==
    /\ fcall.op = "factory"
    /\ hierarchy = <<"condition", "do_while">>
    /\ DOMAIN fcall.controllers = {"condition", "my_condition"}
    /\ fcall.controllers["my_condition"] = "always"
    /\ fcall.controllers["condition"] = "x_eq_0"
    /\ fcall.passes = ASequence(<<Pass("A", "keep")>>)
    /\ fresult.err = NoError
    /\ fresult.obj.kind = "ConditionalController"
    /\ fresult.obj.tasks[1].kind = "FlowControllerLinear"

----------------------------------------------------------------------------
(* C25 *)

\* C25: a.is_mergeable_with(b) changes nothing of a: the timeslots of a and
\* the channelset of a are after the call what they were before it, also
\* when b has a timeslot on a channel a does not occupy.
C25_QueryIsPure ==
    ocall.op = "is_mergeable_with" =>
        /\ occA.timeslots = opre.timeslots
        /\ channelset(occA) = channelset(opre)

\* a occupies x alone; after a.is_mergeable_with(b) with b on y the
\* channelset of a is {x, y}
C25_Witness ==
    /\ ocall.op = "is_mergeable_with"
    /\ opre.timeslots = <<Timeslot(Interval(0, 2), "x")>>
    /\ ocall.other.timeslots = <<Timeslot(Interval(0, 2), "y")>>
    /\ channelset(opre) = {"x"}
    /\ channelset(occA) = {"x", "y"}
    /\ occA.timeslots = opre.timeslots

\* what of C25 the method keeps: the timeslots, and the intervals the table
\* holds for every channel; the channelset only grows, by channels of b
C25_QueryKeepsTimeslots ==
    ocall.op = "is_mergeable_with" =>
        /\ occA.timeslots = opre.timeslots
        /\ TableMatches(occA)
        /\ channelset(opre) \subseteq channelset(occA)
        /\ channelset(occA) \ channelset(opre) \subseteq
               { ocall.other.timeslots[k].channel : k \in 1 .. Len(ocall.other.timeslots) }

----------------------------------------------------------------------------
(* C24 *)

\* the timeslots of the first n children, each child's item moved by its t0
RECURSIVE SlotsOfChildren(_, _)
SlotsOfChildren(kids, n) ==
    IF n = 0 THEN <<>>
    ELSE SlotsOfChildren(kids, n - 1) \o Moved(kids[n].pulse, kids[n].t0)

\* C24: in every state of a Schedule, after successful and failed inserts and
\* appends alike, no two timeslots of the aggregate occupancy on one channel
\* overlap, and the timeslots of the aggregate occupancy are those of the
\* children, each child's item moved by the child's t0, once per child; the
\* table of the occupancy holds these and no other intervals.
C24_AggregateMatchesChildren ==
    /\ \A i, j \in 1 .. Len(occupancy.timeslots) :
           i # j => ~Clash(occupancy.timeslots[i], occupancy.timeslots[j])
    /\ occupancy.timeslots = SlotsOfChildren(children, Len(children))
    /\ TableMatches(occupancy)
    /\ occupancy.err = NoError

\* the schedule holds A on y; an acquire on x and y at 0 was refused, after
\* the table had been read for x: the timeslots are those of A alone
C24_Witness ==
    /\ call.op = "insert"
    /\ call.t0 = 0
    /\ call.pulse = AcquirePulse(1, <<"x", "y">>)
    /\ err = OverlapError
    /\ children = <<TimedPulse(0, DrivePulse(2, "y"))>>
    /\ occupancy.timeslots = <<Timeslot(Interval(0, 2), "y")>>
    /\ channelset(occupancy) = {"x", "y"}

----------------------------------------------------------------------------
(* C27 *)

\* a committed timeslot on channel ch has t strictly inside
StrictlyInside(timeslots, ch, t) ==
    \E i \in 1 .. Len(timeslots) :
        /\ timeslots[i].channel = ch
        /\ timeslots[i].interval.begin < t
        /\ t < timeslots[i].interval.end

\* C27: an interval of duration 0 at t overlaps [b, e) exactly when
\* b < t < e. Inserting a frame change, whose duration is 0, at t0 >= 0 is
\* refused exactly when a committed timeslot of its channel has t0 strictly
\* inside: at the begin or the end instant of another item it is admitted,
\* and so it is at the instant of another frame change.
C27_ZeroDurationStrictlyInside ==
    /\ (call.op = "insert" /\ call.pulse.kind = "FrameChangePulse" /\ call.t0 >= 0) =>
           LET ch == call.pulse.occupancy.timeslots[1].channel
           IN  /\ err # NoError <=> StrictlyInside(pre.occupancy.timeslots, ch, call.t0)
               /\ err # NoError => err = OverlapError
               /\ err = NoError =>
                      children = Append(pre.children, TimedPulse(call.t0, call.pulse))
    /\ \A t \in 0 .. MaxT + MaxDur, b \in 0 .. MaxT, d \in 0 .. MaxDur :
           /\ has_overlap(Interval(t, 0), Interval(b, d)) <=> (b < t /\ t < b + d)
           /\ has_overlap(Interval(b, d), Interval(t, 0)) <=> (b < t /\ t < b + d)

\* a frame change on x at 1 was refused by A (duration 2, channel x) at 0
C27_Witness ==
    /\ call.op = "insert"
    /\ call.t0 = 1
    /\ call.pulse = FrameChangePulse("x")
    /\ pre.children = <<TimedPulse(0, DrivePulse(2, "x"))>>
    /\ err = OverlapError
    /\ children = pre.children

\* a frame change on x at 2, the end instant of A (duration 2, channel x) at
\* 0, was admitted
C27_AdmittedAtEnd ==
    /\ call.op = "insert"
    /\ call.t0 = 2
    /\ call.pulse = FrameChangePulse("x")
    /\ pre.children = <<TimedPulse(0, DrivePulse(2, "x"))>>
    /\ err = NoError

----------------------------------------------------------------------------
(* C28 *)

\* the (t0, pulse) pairs of the first n children
PairsOf(kids, n) == [k \in 1 .. n |-> <<kids[k].t0, kids[k].pulse>>]

\* C28: admission does not depend on the order of two inserts. When
\* (tb, B) is inserted into a schedule whose last child is (ta, A), it is
\* admitted exactly when inserting (tb, B) and then (ta, A) into the schedule
\* of the children before A admits both, and then the two orders give the
\* same set of timeslots and the same end_time(), and each holds its two
\* children in the order of the calls. When (ta, A) was refused, no (tb, B)
\* inserted first makes it admissible.
C28_AdmissionOrderFree ==
    /\ (call.op = "insert" /\ LeafCall /\ Len(pre.children) >= 1) =>
           LET n == Len(pre.children)
               base == Schedule__init__(PairsOf(pre.children, n - 1))
               A == pre.children[n]
               B == TimedPulse(call.t0, call.pulse)
               first == insert(base, B.t0, B.pulse)
               second == insert(first, A.t0, A.pulse)
               swapped == first.err = NoError /\ second.err = NoError
           IN  /\ base.err = NoError
               /\ err = NoError <=> swapped
               /\ err = NoError =>
                      /\ Range(occupancy.timeslots) = Range(second.occupancy.timeslots)
                      /\ end_time(Self) = end_time(second)
                      /\ children = base.children \o <<A, B>>
                      /\ second.children = base.children \o <<B, A>>
    /\ (call.op = "insert" /\ LeafCall /\ err # NoError) =>
           \A tb \in 0 .. MaxT, B \in LeafItems :
               LET first == insert(pre, tb, B)
               IN  first.err = NoError =>
                       insert(first, call.t0, call.pulse).err # NoError

\* B (duration 1, channel x) at 0 was inserted after A (duration 2, channel
\* x) at 1: admitted in this order and in the other, children in call order
C28_Witness ==
    /\ call.op = "insert"
    /\ err = NoError
    /\ children = <<TimedPulse(1, DrivePulse(2, "x")), TimedPulse(0, DrivePulse(1, "x"))>>
    /\ end_time(Self) = 3

----------------------------------------------------------------------------
(* C26 *)

\* within one call of ConditionalController.iter_tasks
SameCall == ctrl.kind = "ConditionalController" /\ calls > 0 /\ calls' = calls

\* C26: a call of ConditionalController.iter_tasks asks its condition once,
\* before it yields a task, and never again while the call lasts. If the
\* answer was true every task is yielded once and in order, whatever is
\* written to property_set between two tasks, also when the condition would
\* now fail; if it was false the call yields nothing, whatever is written to
\* property_set afterwards.
C26_ConditionAskedOnceAtEntry ==
    /\ []((ctrl.kind = "ConditionalController" /\ calls > 0) =>
             /\ Len(evals) = 1
             /\ evals[1] =>
                    /\ Len(yielded) <= Len(ctrl.tasks)
                    /\ yielded = SubSeq(Names(ctrl), 1, Len(yielded))
                    /\ outcome.status = "returned" => yielded = Names(ctrl)
                    /\ outcome.status = "running" => Len(yielded) >= 1
             /\ ~evals[1] => (yielded = <<>> /\ outcome.status = "returned")
             /\ outcome.status # "raised")
    /\ [][SameCall =>
             /\ evals' = evals
             /\ yielded' # yielded =>
                    /\ evals[1]
                    /\ yielded' = Append(yielded, Names(ctrl)[Len(yielded) + 1])
             /\ (outcome.status = "running" /\ property_set' = property_set) =>
                    \/ yielded' # yielded
                    \/ (outcome'.status = "returned" /\ yielded = Names(ctrl))]_vars

\* the condition x == 1 held when the call began and A was yielded; x is 0
\* now and B has been yielded all the same
C26_Witness ==
    /\ ctrl.kind = "ConditionalController"
    /\ ctrl.condition = "x_eq_1"
    /\ calls = 1
    /\ entry.x = 1
    /\ property_set.x = 0
    /\ evals = <<TRUE>>
    /\ yielded = <<"A", "B">>
    /\ outcome.status = "returned"

----------------------------------------------------------------------------
(* C23 *)

\* the passes the run has run, in order
RunsOf(events) == SelectSeq(events, IsRun)

====
